---- MODULE Spec2Model ----
(***************************************************************************)
(* paranoid-openvpn: the OVPN profile model (profile_parser.py) and the    *)
(* hardening transform (main.py).                                          *)
(*                                                                         *)
(* A Python str is a sequence of one-character strings; a text file is the *)
(* sequence of lines f.readlines() returns, each line keeping its "\n".    *)
(***************************************************************************)
EXTENDS Integers, Sequences, FiniteSets, TLC

VARIABLES
    lines,      \* the input file as read by f_in.readlines()
    args,       \* the options parsed by cli(): min_tls and provider_ext
    params,     \* OVPNConfig.params
    out,        \* the lines OVPNConfig.write put into the output file
    pc,         \* position of the driver
    err,        \* the exception that left the last operation ("none" when it returned)
    calls,      \* history of the operations applied, oldest first
    fs,         \* the file system process_profiles works on (directory mode)
    exit_stack  \* ResolveSource.exit_stack: the context managers entered, oldest first

\* Python's None (no one-character string equals "None").
None == <<"None">>

-----------------------------------------------------------------------------
(* str helpers *)

Whitespace == {" ", "\t", "\n"}
LowerSeq == <<"a","b","c","d","e","f","g","h","i","j","k","l","m","n","o","p","q","r","s","t","u","v","w","x","y","z">>
UpperSeq == <<"A","B","C","D","E","F","G","H","I","J","K","L","M","N","O","P","Q","R","S","T","U","V","W","X","Y","Z">>
Digits == {"0","1","2","3","4","5","6","7","8","9"}
\* [a-z0-9] and [a-z\-\_0-9] of the two regular expressions
AlNum == {LowerSeq[i] : i \in 1..Len(LowerSeq)} \cup Digits
WordChar == AlNum \cup {"-", "_"}

\* str.upper()
upper(s) ==
    [i \in 1..Len(s) |->
        IF \E k \in 1..Len(LowerSeq) : LowerSeq[k] = s[i]
        THEN UpperSeq[CHOOSE k \in 1..Len(LowerSeq) : LowerSeq[k] = s[i]]
        ELSE s[i]]

\* str.lstrip(), str.rstrip(), str.strip()
RECURSIVE lstrip(_)
lstrip(s) ==
    IF s = <<>> \/ s[1] \notin Whitespace THEN s ELSE lstrip(Tail(s))

RECURSIVE rstrip(_)
rstrip(s) ==
    IF s = <<>> \/ s[Len(s)] \notin Whitespace THEN s
    ELSE rstrip(SubSeq(s, 1, Len(s) - 1))

strip(s) == rstrip(lstrip(s))

\* str.startswith(prefix)
startswith(s, prefix) ==
    Len(s) >= Len(prefix) /\ SubSeq(s, 1, Len(prefix)) = prefix

\* sub in s
contains(s, sub) ==
    \E i \in 1..(Len(s) - Len(sub) + 1) : SubSeq(s, i, i + Len(sub) - 1) = sub

\* "\n".join(items) and friends
RECURSIVE join(_, _)
join(sep, items) ==
    IF items = <<>> THEN <<>>
    ELSE IF Len(items) = 1 THEN items[1]
    ELSE items[1] \o sep \o join(sep, Tail(items))

\* re.match(r"[a-z0-9][a-z\-\_0-9]*[a-z0-9]", s): the length of the longest
\* match at the head of s, 0 when there is none.
NameMatchLen(s) ==
    LET ends == {j \in 2..Len(s) : /\ s[1] \in AlNum
                                   /\ s[j] \in AlNum
                                   /\ \A k \in 2..(j - 1) : s[k] \in WordChar}
    IN  IF ends = {} THEN 0 ELSE CHOOSE j \in ends : \A k \in ends : k <= j

\* re.match(r"<([a-z0-9][a-z\-\_0-9]*[a-z0-9])>", s): group(1), None when no match.
TagMatch(s) ==
    LET closes == {j \in 4..Len(s) : /\ s[1] = "<"
                                     /\ s[j] = ">"
                                     /\ NameMatchLen(SubSeq(s, 2, j - 1)) = j - 2}
    IN  IF closes = {} THEN None
        ELSE SubSeq(s, 2, (CHOOSE j \in closes : \A k \in closes : j <= k) - 1)

-----------------------------------------------------------------------------
(* String literals of the program *)

S_cipher == <<"c","i","p","h","e","r">>
S_data_ciphers == <<"d","a","t","a","-","c","i","p","h","e","r","s">>
S_ncp_disable == <<"n","c","p","-","d","i","s","a","b","l","e">>
S_tls_version_min == <<"t","l","s","-","v","e","r","s","i","o","n","-","m","i","n">>
S_tls_cipher == <<"t","l","s","-","c","i","p","h","e","r">>
S_tls_groups == <<"t","l","s","-","g","r","o","u","p","s">>
S_tls_ciphersuites == <<"t","l","s","-","c","i","p","h","e","r","s","u","i","t","e","s">>
TLS_CIPHER_STRONG == <<"T","L","S","-","E","C","D","H","E","-","E","C","D","S","A","-","W","I","T","H","-","A","E","S","-","2","5","6","-","G","C","M","-","S","H","A","3","8","4",":","T","L","S","-","E","C","D","H","E","-","E","C","D","S","A","-","W","I","T","H","-","C","H","A","C","H","A","2","0","-","P","O","L","Y","1","3","0","5","-","S","H","A","2","5","6",":","T","L","S","-","E","C","D","H","E","-","E","C","D","S","A","-","W","I","T","H","-","A","E","S","-","2","5","6","-","C","B","C","-","S","H","A","3","8","4">>
TLS_GROUPS_STRONG == <<"s","e","c","p","5","2","1","r","1",":","X","4","4","8",":","s","e","c","p","3","8","4","r","1",":","s","e","c","p","2","5","6","r","1",":","X","2","5","5","1","9">>
TLS_CIPHERSUITES_STRONG == <<"T","L","S","_","A","E","S","_","2","5","6","_","G","C","M","_","S","H","A","3","8","4",":","T","L","S","_","C","H","A","C","H","A","2","0","_","P","O","L","Y","1","3","0","5","_","S","H","A","2","5","6">>
TLS_CIPHER_BASE == <<"T","L","S","-","E","C","D","H","E","-","E","C","D","S","A","-","W","I","T","H","-","A","E","S","-","1","2","8","-","G","C","M","-","S","H","A","2","5","6",":","T","L","S","-","E","C","D","H","E","-","E","C","D","S","A","-","W","I","T","H","-","C","H","A","C","H","A","2","0","-","P","O","L","Y","1","3","0","5","-","S","H","A","2","5","6",":","T","L","S","-","E","C","D","H","E","-","E","C","D","S","A","-","W","I","T","H","-","A","E","S","-","1","2","8","-","C","B","C","-","S","H","A","2","5","6">>
TLS_GROUPS_BASE == <<"s","e","c","p","2","5","6","r","1",":","X","2","5","5","1","9">>
TLS_CIPHERSUITES_BASE == <<"T","L","S","_","A","E","S","_","1","2","8","_","G","C","M","_","S","H","A","2","5","6",":","T","L","S","_","C","H","A","C","H","A","2","0","_","P","O","L","Y","1","3","0","5","_","S","H","A","2","5","6">>
PIA_CIPHER_STRONG == <<"A","E","S","-","2","5","6","-","G","C","M">>
PIA_DATA_STRONG == <<"A","E","S","-","2","5","6","-","G","C","M",":","C","H","A","C","H","A","2","0","-","P","O","L","Y","1","3","0","5",":","A","E","S","-","2","5","6","-","C","B","C">>
PIA_CIPHER_BASE == <<"A","E","S","-","1","2","8","-","G","C","M">>
PIA_DATA_BASE == <<"A","E","S","-","1","2","8","-","G","C","M",":","C","H","A","C","H","A","2","0","-","P","O","L","Y","1","3","0","5",":","A","E","S","-","1","2","8","-","C","B","C">>
BEGIN_COMMENT == <<"#"," ","B","e","g","i","n"," ","P","a","r","a","n","o","i","d"," ","O","p","e","n","V","P","N"," ","c","h","a","n","g","e","s">>
END_COMMENT == <<"#"," ","E","n","d"," ","P","a","r","a","n","o","i","d"," ","O","p","e","n","V","P","N"," ","c","h","a","n","g","e","s">>
S_256 == <<"2","5","6">>
S_CHACHA == <<"C","H","A","C","H","A","2","0","-","P","O","L","Y","1","3","0","5">>
S_192 == <<"1","9","2">>
S_128 == <<"1","2","8">>
S_SEED == <<"S","E","E","D","-">>
S_SM4 == <<"S","M","4","-">>
S_or_highest == <<" ","o","r","-","h","i","g","h","e","s","t">>
S_lt == <<"<">>
S_gt == <<">">>
S_lt_slash == <<"<","/">>
S_nl == <<"\n">>
S_space == <<" ">>

-----------------------------------------------------------------------------
(* Element model: BlankLine, Comment, Inline, Parameter *)

\* BlankLine(): name and value are None, one line
BlankLine == [kind |-> "BlankLine", name |-> None, value |-> None, body |-> <<>>]

\* Comment.__init__: the stripped text is the name
Comment(comment) ==
    [kind |-> "Comment", name |-> strip(comment), value |-> None, body |-> <<>>]

\* Inline.__init__: body is _value (the stripped lines), value the joined property
Inline(param, value) ==
    LET stripped == [i \in 1..Len(value) |-> strip(value[i])]
    IN  [kind |-> "Inline", name |-> strip(param),
         value |-> join(S_nl, stripped), body |-> stripped]

\* Parameter.__init__: value.strip() if value else None
Parameter(param, value) ==
    [kind |-> "Parameter", name |-> strip(param),
     value |-> IF value # None /\ value # <<>> THEN strip(value) ELSE None,
     body |-> <<>>]

\* __len__ of each element
ElemLen(e) == IF e.kind = "Inline" THEN 2 + Len(e.body) ELSE 1

\* What a reader returns: the element, or the ValueError it raised.
Recognised(e) == [ok |-> TRUE, ele |-> e, why |-> "none"]
NotRecognised(why) == [ok |-> FALSE, ele |-> BlankLine, why |-> why]

BlankLine_read(config) ==
    IF strip(config[1]) # <<>> THEN NotRecognised("Line is not empty")
    ELSE Recognised(BlankLine)

Comment_read(config) ==
    IF ~(startswith(config[1], <<"#">>) \/ startswith(config[1], <<";">>))
    THEN NotRecognised("Line does not start with a comment character")
    ELSE Recognised(Comment(config[1]))

Inline_read(config) ==
    LET line == strip(config[1])
        stripped_param == TagMatch(line)
        param == S_lt \o stripped_param \o S_gt
        closer == S_lt_slash \o stripped_param \o S_gt
        closed == {i \in 2..Len(config) : startswith(config[i], closer)}
        first == CHOOSE i \in closed : \A j \in closed : i <= j
    IN  IF stripped_param = None THEN NotRecognised("Line is not an inline tag")
        ELSE IF closed = {} THEN NotRecognised("Tag was never closed")
        ELSE Recognised(Inline(param, SubSeq(config, 2, first - 1)))

\* Faulty variant: every line that is not blank is taken
Parameter_read_Any(config) ==
    LET line == strip(config[1])
        spaces == {i \in 1..Len(line) : line[i] = " "}
        cut == CHOOSE i \in spaces : \A j \in spaces : i <= j
    IN  IF line = <<>> THEN NotRecognised("Line is not a parameter")
        ELSE IF spaces = {} THEN Recognised(Parameter(line, None))
        ELSE Recognised(Parameter(SubSeq(line, 1, cut - 1),
                                  SubSeq(line, cut + 1, Len(line))))

Parameter_read(config) ==
    LET line == strip(config[1])
        spaces == {i \in 1..Len(line) : line[i] = " "}
        cut == CHOOSE i \in spaces : \A j \in spaces : i <= j
    IN  IF NameMatchLen(line) = 0 THEN NotRecognised("Line is not a parameter")
        ELSE IF spaces = {} THEN Recognised(Parameter(line, None))
        ELSE Recognised(Parameter(SubSeq(line, 1, cut - 1),
                                  SubSeq(line, cut + 1, Len(line))))

\* The lines each element's write() puts into the file.
BlankLine_write(e) == <<S_nl>>

Comment_write(e) == <<e.name \o S_nl>>

Inline_write(e) ==
    LET naked_name == SubSeq(e.name, 2, Len(e.name) - 1)
    IN  <<S_lt \o naked_name \o S_gt \o S_nl>>
        \o [i \in 1..Len(e.body) |-> e.body[i] \o S_nl]
        \o <<S_lt_slash \o naked_name \o S_gt \o S_nl>>

\* Faulty variant: the value is dropped on output
Parameter_write_NoValue(e) == <<e.name \o S_nl>>

Parameter_write(e) ==
    IF e.value # None /\ e.value # <<>>
    THEN <<e.name \o S_space \o e.value \o S_nl>>
    ELSE <<e.name \o S_nl>>

ElemWrite(e) ==
    CASE e.kind = "BlankLine" -> BlankLine_write(e)
      [] e.kind = "Comment"   -> Comment_write(e)
      [] e.kind = "Inline"    -> Inline_write(e)
      [] e.kind = "Parameter" -> Parameter_write(e)

-----------------------------------------------------------------------------
(* Document model: OVPNConfig *)

\* What a mutating operation returns: the exception raised and the params left.
Returned(ps) == [err |-> "none", params |-> ps]
Raised(e, ps) == [err |-> e, params |-> ps]

\* Positions whose element's name equals key, in document order
Named(ps, key) == {i \in 1..Len(ps) : ps[i].name = key}
First(S) == CHOOSE i \in S : \A j \in S : i <= j

\* Faulty variant: no look for an element of the same name
add_Append(ps, new_param, exist_ok) == Returned(Append(ps, new_param))

\* Faulty variant: with exist_ok the old element is dropped and the new one
\* appended
add_ReplaceAtEnd(ps, new_param, exist_ok) ==
    IF new_param.kind \notin {"BlankLine", "Comment"}
    THEN IF Named(ps, new_param.name) # {}
         THEN IF exist_ok
              THEN Returned(Append(
                       SubSeq(ps, 1, First(Named(ps, new_param.name)) - 1)
                       \o SubSeq(ps, First(Named(ps, new_param.name)) + 1, Len(ps)),
                       new_param))
              ELSE Raised("KeyError", ps)
         ELSE Returned(Append(ps, new_param))
    ELSE Returned(Append(ps, new_param))

\* OVPNConfig.add
add(ps, new_param, exist_ok) ==
    IF new_param.kind \notin {"BlankLine", "Comment"}
    THEN IF Named(ps, new_param.name) # {}
         THEN IF exist_ok
              THEN Returned([ps EXCEPT ![First(Named(ps, new_param.name))] = new_param])
              ELSE Raised("KeyError", ps)
         ELSE Returned(Append(ps, new_param))
    ELSE Returned(Append(ps, new_param))

\* The for/else over [BlankLine, Comment, Inline, Parameter] in OVPNConfig.read:
\* the first reader that does not raise ValueError.
FirstParser(ls) ==
    IF BlankLine_read(ls).ok THEN BlankLine_read(ls)
    ELSE IF Comment_read(ls).ok THEN Comment_read(ls)
    ELSE IF Inline_read(ls).ok THEN Inline_read(ls)
    ELSE Parameter_read(ls)

\* Faulty variant: a line no reader recognises is skipped
RECURSIVE ReadLoop_SkipUnknown(_, _)
ReadLoop_SkipUnknown(ls, ps) ==
    IF ls = <<>> THEN [err |-> "none", params |-> ps, line |-> None]
    ELSE LET r == FirstParser(ls)
             a == add(ps, r.ele, FALSE)
         IN  IF ~r.ok
             THEN ReadLoop_SkipUnknown(Tail(ls), ps)
             ELSE IF a.err # "none"
             THEN [err |-> a.err, params |-> a.params, line |-> ls[1]]
             ELSE ReadLoop_SkipUnknown(SubSeq(ls, ElemLen(r.ele) + 1, Len(ls)), a.params)

\* The while loop of OVPNConfig.read
RECURSIVE ReadLoop(_, _)
ReadLoop(ls, ps) ==
    IF ls = <<>> THEN [err |-> "none", params |-> ps, line |-> None]
    ELSE LET r == FirstParser(ls)
             a == add(ps, r.ele, FALSE)
         IN  IF ~r.ok
             THEN [err |-> "ValueError: Unknown config file line", params |-> ps,
                   line |-> ls[1]]
             ELSE IF a.err # "none"
             THEN [err |-> a.err, params |-> a.params, line |-> ls[1]]
             ELSE ReadLoop(SubSeq(ls, ElemLen(r.ele) + 1, Len(ls)), a.params)

OVPNConfig_read(config_file) == ReadLoop(config_file, <<>>)

\* OVPNConfig.write: the lines written, in order
RECURSIVE OVPNConfig_write(_)
OVPNConfig_write(ps) ==
    IF ps = <<>> THEN <<>> ELSE ElemWrite(Head(ps)) \o OVPNConfig_write(Tail(ps))

\* OVPNConfig.__contains__
Contains(ps, key) == Named(ps, key) # {}

\* OVPNConfig.__getitem__ with a str key: the element, or the exception
GetItem(ps, key) ==
    IF key = <<>> THEN [err |-> "TypeError", ele |-> BlankLine]
    ELSE IF Named(ps, key) = {} THEN [err |-> "KeyError", ele |-> BlankLine]
    ELSE [err |-> "none", ele |-> ps[First(Named(ps, key))]]

\* del params[i], i counted from 1
Remove(ps, i) == SubSeq(ps, 1, i - 1) \o SubSeq(ps, i + 1, Len(ps))

\* Faulty variant: the last element of that name is removed
DelItem_Last(ps, key) ==
    IF key = <<>> THEN Raised("TypeError", ps)
    ELSE IF Named(ps, key) = {} THEN Raised("KeyError", ps)
    ELSE Returned(Remove(ps, CHOOSE i \in Named(ps, key) : \A j \in Named(ps, key) : j <= i))

\* OVPNConfig.__delitem__ with a str key
DelItem(ps, key) ==
    IF key = <<>> THEN Raised("TypeError", ps)
    ELSE IF Named(ps, key) = {} THEN Raised("KeyError", ps)
    ELSE Returned(Remove(ps, First(Named(ps, key))))

\* OVPNConfig.__delitem__ with an int key (Python index: 0-based, negative
\* counts from the end)
DelIndex(ps, key) ==
    LET i == IF key < 0 THEN key + Len(ps) ELSE key
    IN  IF i < 0 \/ i >= Len(ps) THEN Raised("IndexError", ps)
        ELSE Returned(Remove(ps, i + 1))

\* The bounds of the slice params[start:end] as 0-based positions lo..hi-1
SliceLo(n, start) == IF start < 0 THEN (IF start + n < 0 THEN 0 ELSE start + n)
                     ELSE (IF start > n THEN n ELSE start)

\* OVPNConfig.index. An Optional[int] argument is <<>> for None and <<n>> for n;
\* start/end of None or 0 fall back to 0 and len(params); the value returned is
\* the position within the slice params[start:end].
index(ps, key, start, end) ==
    LET s == IF start = <<>> \/ start = <<0>> THEN 0 ELSE start[1]
        e == IF end = <<>> \/ end = <<0>> THEN Len(ps) ELSE end[1]
        lo == SliceLo(Len(ps), s)
        hi == SliceLo(Len(ps), e)
        hits == {i \in 0..(hi - lo - 1) : ps[lo + i + 1].name = key}
    IN  IF key = <<>> THEN [err |-> "TypeError", val |-> 0]
        ELSE IF hits = {} THEN [err |-> "KeyError", val |-> 0]
        ELSE [err |-> "none", val |-> First(hits)]

\* Faulty variant: the element at the position is overwritten (params[index] = x)
ListInsert_Overwrite(ps, idx, x) ==
    LET i == SliceLo(Len(ps), idx)
    IN  SubSeq(ps, 1, i) \o <<x>> \o SubSeq(ps, i + 2, Len(ps))

\* list.insert(index, x): 0-based, clamped to the ends of the list
ListInsert(ps, idx, x) ==
    LET i == SliceLo(Len(ps), idx)
    IN  SubSeq(ps, 1, i) \o <<x>> \o SubSeq(ps, i + 1, Len(ps))

\* Faulty variant: the look for an element of the same name is left out
insert_Unchecked(ps, idx, param) == Returned(ListInsert(ps, idx, param))

\* OVPNConfig.insert
insert(ps, idx, param) ==
    IF param.name # None /\ param.name # <<>> /\ param.kind # "Comment"
       /\ Contains(ps, param.name)
    THEN Raised("KeyError", ps)
    ELSE Returned(ListInsert(ps, idx, param))

\* Faulty variant: always the end of the document
last_before_inline_End(ps) == Len(ps)

\* OVPNConfig.last_before_inline (a 0-based position)
last_before_inline(ps) ==
    LET inl == {i \in 1..Len(ps) : ps[i].kind = "Inline"}
    IN  IF inl = {} THEN Len(ps) ELSE First(inl) - 1

\* Faulty variant: the 192 rule is tried before the 256 rule
Classify_MediumFirst(cipher) ==
    IF cipher # None /\ contains(cipher, S_192) THEN "MEDIUM"
    ELSE IF cipher # None /\ (contains(cipher, S_256) \/ contains(cipher, S_CHACHA))
    THEN "STRONG"
    ELSE IF cipher # None /\ (contains(cipher, S_128) \/ contains(cipher, S_SEED)
                              \/ contains(cipher, S_SM4))
    THEN "ACCEPTABLE"
    ELSE "WEAK"

\* The if/elif chain of OVPNConfig.cipher_strength
Classify(cipher) ==
    IF cipher # None /\ (contains(cipher, S_256) \/ contains(cipher, S_CHACHA))
    THEN "STRONG"
    ELSE IF cipher # None /\ contains(cipher, S_192) THEN "MEDIUM"
    ELSE IF cipher # None /\ (contains(cipher, S_128) \/ contains(cipher, S_SEED)
                              \/ contains(cipher, S_SM4))
    THEN "ACCEPTABLE"
    ELSE "WEAK"

\* OVPNConfig.cipher_strength: the class, or the exception of self["cipher"]
cipher_strength(ps) ==
    LET got == GetItem(ps, S_cipher)
        cipher == IF got.ele.value # None /\ got.ele.value # <<>>
                  THEN upper(got.ele.value) ELSE None
    IN  IF got.err # "none" THEN [err |-> got.err, val |-> "WEAK"]
        ELSE [err |-> "none", val |-> Classify(cipher)]

-----------------------------------------------------------------------------
(* The transform: main.py *)

TLSVersion == {<<"1",".","0">>, <<"1",".","1">>, <<"1",".","2">>, <<"1",".","3">>}
ProviderExtensions == {"NONE", "PIA"}

\* Faulty variant: the Begin and End comments of an earlier run are deleted too
RECURSIVE DeleteAll_WithMarkers(_, _)
DeleteAll_WithMarkers(ps, names) ==
    IF names = <<>>
    THEN DelItem(DelItem(ps, BEGIN_COMMENT).params, END_COMMENT).params
    ELSE DeleteAll_WithMarkers(DelItem(ps, Head(names)).params, Tail(names))

\* for x in names: try: del config[x] except KeyError: pass
RECURSIVE DeleteAll(_, _)
DeleteAll(ps, names) ==
    IF names = <<>> THEN ps
    ELSE DeleteAll(DelItem(ps, Head(names)).params, Tail(names))

RECURSIVE InsertAll_SameIndex(_, _, _)
\* Faulty variant: every item is inserted at the same index
InsertAll_SameIndex(ps, at, items) ==
    IF items = <<>> THEN Returned(ps)
    ELSE LET r == insert(ps, at, Head(items))
         IN  IF r.err # "none" THEN r
             ELSE InsertAll_SameIndex(r.params, at, Tail(items))

\* for i, line in enumerate(items, start=at): config.insert(i, line)
RECURSIVE InsertAll(_, _, _)
InsertAll(ps, at, items) ==
    IF items = <<>> THEN Returned(ps)
    ELSE LET r == insert(ps, at, Head(items))
         IN  IF r.err # "none" THEN r
             ELSE InsertAll(r.params, at + 1, Tail(items))

Names(items) == [i \in 1..Len(items) |-> items[i].name]

Bracketed(settings) ==
    <<BlankLine, Comment(BEGIN_COMMENT)>> \o settings
    \o <<Comment(END_COMMENT), BlankLine>>

\* Faulty variant: MEDIUM selects the 256-bit bundle too
PiaSettings_MediumStrong(strength) ==
    IF strength \in {"STRONG", "MEDIUM"}
    THEN <<Parameter(S_cipher, PIA_CIPHER_STRONG),
           Parameter(S_data_ciphers, PIA_DATA_STRONG),
           Parameter(S_ncp_disable, None)>>
    ELSE <<Parameter(S_cipher, PIA_CIPHER_BASE),
           Parameter(S_data_ciphers, PIA_DATA_BASE),
           Parameter(S_ncp_disable, None)>>

\* cipher_settings of process_pia
PiaSettings(strength) ==
    IF strength = "STRONG"
    THEN <<Parameter(S_cipher, PIA_CIPHER_STRONG),
           Parameter(S_data_ciphers, PIA_DATA_STRONG),
           Parameter(S_ncp_disable, None)>>
    ELSE <<Parameter(S_cipher, PIA_CIPHER_BASE),
           Parameter(S_data_ciphers, PIA_DATA_BASE),
           Parameter(S_ncp_disable, None)>>

\* Faulty variant: without a cipher parameter nothing is done
process_pia_SkipNoCipher(ps) ==
    LET cs == cipher_strength(ps)
        cipher_settings == PiaSettings(cs.val)
        cipher_loc == index(ps, S_cipher, <<>>, <<>>)
        cleared == DeleteAll(ps, Names(cipher_settings))
        done == InsertAll(cleared, cipher_loc.val, Bracketed(cipher_settings))
    IN  IF ~Contains(ps, S_cipher)
        THEN [err |-> "none", params |-> ps, strength |-> "none", cipher_loc |-> -1]
        ELSE [err |-> done.err, params |-> done.params, strength |-> cs.val,
              cipher_loc |-> cipher_loc.val]

\* process_pia: the exception and the params left, with the classification and
\* the insertion point it used
process_pia(ps) ==
    LET cs == cipher_strength(ps)
        cipher_settings == PiaSettings(cs.val)
        cipher_loc == index(ps, S_cipher, <<>>, <<>>)
        cleared == DeleteAll(ps, Names(cipher_settings))
        done == InsertAll(cleared, cipher_loc.val, Bracketed(cipher_settings))
    IN  IF cs.err # "none"
        THEN [err |-> cs.err, params |-> ps, strength |-> "none", cipher_loc |-> -1]
        ELSE IF cipher_loc.err # "none"
        THEN [err |-> cipher_loc.err, params |-> ps, strength |-> cs.val,
              cipher_loc |-> -1]
        ELSE [err |-> done.err, params |-> done.params, strength |-> cs.val,
              cipher_loc |-> cipher_loc.val]

\* Faulty variant: only STRONG selects the strong set
SecuritySettings_StrongOnly(strength, min_tls) ==
    IF strength = "STRONG"
    THEN <<Parameter(S_tls_version_min, min_tls \o S_or_highest),
           Parameter(S_tls_cipher, TLS_CIPHER_STRONG),
           Parameter(S_tls_groups, TLS_GROUPS_STRONG),
           Parameter(S_tls_ciphersuites, TLS_CIPHERSUITES_STRONG)>>
    ELSE <<Parameter(S_tls_version_min, min_tls \o S_or_highest),
           Parameter(S_tls_cipher, TLS_CIPHER_BASE),
           Parameter(S_tls_groups, TLS_GROUPS_BASE),
           Parameter(S_tls_ciphersuites, TLS_CIPHERSUITES_BASE)>>

\* security_settings of process_profile
SecuritySettings(strength, min_tls) ==
    IF strength \in {"STRONG", "MEDIUM"}
    THEN <<Parameter(S_tls_version_min, min_tls \o S_or_highest),
           Parameter(S_tls_cipher, TLS_CIPHER_STRONG),
           Parameter(S_tls_groups, TLS_GROUPS_STRONG),
           Parameter(S_tls_ciphersuites, TLS_CIPHERSUITES_STRONG)>>
    ELSE <<Parameter(S_tls_version_min, min_tls \o S_or_highest),
           Parameter(S_tls_cipher, TLS_CIPHER_BASE),
           Parameter(S_tls_groups, TLS_GROUPS_BASE),
           Parameter(S_tls_ciphersuites, TLS_CIPHERSUITES_BASE)>>

\* Faulty variant: no warning
Warns_Never(strength) == FALSE

\* if cipher_strength == CipherStrength.WEAK: warnings.warn(...)
Warns(strength) == strength = "WEAK"

\* Faulty variant: the warning is decided from the class of the document as it
\* is when process_profile is about to return
process_profile_WarnAtExit(ps, min_tls, provider_ext) ==
    LET cs == cipher_strength(ps)
        security_settings == SecuritySettings(cs.val, min_tls)
        cleared == DeleteAll(ps, Names(security_settings))
        anchor == last_before_inline(cleared)
        ins == InsertAll(cleared, anchor, Bracketed(security_settings))
        pia == process_pia(ins.params)
    IN  IF cs.err # "none"
        THEN [err |-> cs.err, params |-> ps, strength |-> "none", anchor |-> -1,
              inserted |-> ps, pia_strength |-> "none", cipher_loc |-> -1,
              warned |-> FALSE]
        ELSE IF ins.err # "none"
        THEN [err |-> ins.err, params |-> ins.params, strength |-> cs.val,
              anchor |-> anchor, inserted |-> ins.params, pia_strength |-> "none",
              cipher_loc |-> -1, warned |-> FALSE]
        ELSE IF provider_ext = "PIA"
        THEN [err |-> pia.err, params |-> pia.params, strength |-> cs.val,
              anchor |-> anchor, inserted |-> ins.params,
              pia_strength |-> pia.strength, cipher_loc |-> pia.cipher_loc,
              warned |-> (pia.err = "none" /\ Warns(cipher_strength(pia.params).val))]
        ELSE [err |-> "none", params |-> ins.params, strength |-> cs.val,
              anchor |-> anchor, inserted |-> ins.params, pia_strength |-> "none",
              cipher_loc |-> -1, warned |-> Warns(cs.val)]

\* process_profile: the exception and the params left; strength is the class
\* computed on entry, anchor the last_before_inline() the insertion started at,
\* inserted the params right after the insertion loop, pia_strength and
\* cipher_loc what process_pia computed, warned whether warnings.warn was reached.
process_profile(ps, min_tls, provider_ext) ==
    LET cs == cipher_strength(ps)
        security_settings == SecuritySettings(cs.val, min_tls)
        cleared == DeleteAll(ps, Names(security_settings))
        anchor == last_before_inline(cleared)
        ins == InsertAll(cleared, anchor, Bracketed(security_settings))
        pia == process_pia(ins.params)
    IN  IF cs.err # "none"
        THEN [err |-> cs.err, params |-> ps, strength |-> "none", anchor |-> -1,
              inserted |-> ps, pia_strength |-> "none", cipher_loc |-> -1,
              warned |-> FALSE]
        ELSE IF ins.err # "none"
        THEN [err |-> ins.err, params |-> ins.params, strength |-> cs.val,
              anchor |-> anchor, inserted |-> ins.params, pia_strength |-> "none",
              cipher_loc |-> -1, warned |-> FALSE]
        ELSE IF provider_ext = "PIA"
        THEN [err |-> pia.err, params |-> pia.params, strength |-> cs.val,
              anchor |-> anchor, inserted |-> ins.params,
              pia_strength |-> pia.strength, cipher_loc |-> pia.cipher_loc,
              warned |-> (pia.err = "none" /\ Warns(cs.val))]
        ELSE [err |-> "none", params |-> ins.params, strength |-> cs.val,
              anchor |-> anchor, inserted |-> ins.params, pia_strength |-> "none",
              cipher_loc |-> -1, warned |-> Warns(cs.val)]
L_blank == <<"\n">>
L_blank_ws == <<" ","\n">>
L_comment == <<"#","c","\n">>
L_comment_semi == <<";","c"," ","\n">>
L_comment_indent == <<" ","#","c","\n">>
L_flag == <<"a","b","\n">>
L_param == <<"a","b"," ","x","\n">>
L_param_2sp == <<"a","b"," "," ","x","\n">>
L_param_tab == <<"a","b","\t","x","\n">>
L_param_indent == <<" ","c","d"," ","x","\n">>
L_param_words == <<"c","d"," ","x"," ","y","\n">>
L_open == <<"<","c","a",">","\n">>
L_close == <<"<","/","c","a",">","\n">>
L_close_junk == <<"<","/","c","a",">","x","\n">>
L_close_indent == <<" ","<","/","c","a",">","\n">>
L_open_junk == <<"<","c","a",">","x","\n">>
L_body == <<"M","I","I","B","\n">>
L_bogus == <<"-","b","o","g","u","s","-","\n">>
L_short == <<"a","\n">>
L_param_noeol == <<"a","b"," ","x">>
L_close_noeol == <<"<","/","c","a",">">>
P_cipher_256 == <<"c","i","p","h","e","r"," ","A","E","S","-","2","5","6","-","C","B","C","\n">>
P_cipher_192 == <<"c","i","p","h","e","r"," ","a","e","s","-","1","9","2","-","c","b","c","\n">>
P_cipher_128 == <<"c","i","p","h","e","r"," ","A","E","S","-","1","2","8","-","C","B","C","\n">>
P_cipher_bf == <<"c","i","p","h","e","r"," ","B","F","-","C","B","C","\n">>
P_tls_version_min == <<"t","l","s","-","v","e","r","s","i","o","n","-","m","i","n"," ","1",".","0","\n">>
P_tls_ciphersuites == <<"t","l","s","-","c","i","p","h","e","r","s","u","i","t","e","s"," ","T","L","S","_","A","E","S","_","1","2","8","_","G","C","M","_","S","H","A","2","5","6","\n">>
P_data_ciphers == <<"d","a","t","a","-","c","i","p","h","e","r","s"," ","B","F","-","C","B","C","\n">>
P_ncp_disable == <<"n","c","p","-","d","i","s","a","b","l","e","\n">>
P_comment == <<"#"," ","c","\n">>

\* The pieces profile files are made of: one line each, or a whole inline block.
ProfileBlocks ==
    {<<P_cipher_256>>, <<P_cipher_192>>, <<P_cipher_128>>, <<P_cipher_bf>>,
     <<P_tls_version_min>>, <<P_tls_ciphersuites>>, <<P_data_ciphers>>,
     <<P_ncp_disable>>, <<P_comment>>, <<L_open, L_body, L_close>>}

-----------------------------------------------------------------------------
(* State machine *)

vars == <<lines, args, params, out, pc, err, calls, fs, exit_stack>>

\* Input files: at most MaxLines lines; only the last line of a file can lack
\* its "\n" (readlines splits after each "\n").
MaxLines == 3

RTLines == {L_blank, L_blank_ws, L_comment, L_comment_semi, L_comment_indent,
            L_flag, L_param, L_param_2sp, L_param_tab, L_param_indent,
            L_param_words, L_open, L_close, L_close_junk, L_close_indent,
            L_open_junk, L_body, L_bogus, L_short}
RTLastLines == {L_param_noeol, L_close_noeol}

FilesOver(terminated, unterminated, n) ==
    UNION {[1..k -> terminated] : k \in 0..n}
    \cup {Append(t, l) : t \in UNION {[1..k -> terminated] : k \in 0..(n - 1)},
                         l \in unterminated}

\* No file system: a single profile is handled in memory
NoFs == [src |-> <<>>, dest |-> <<>>, dirs |-> {}, files |-> <<>>, orig |-> <<>>,
         made |-> {}, start |-> {}, seen |-> {}]

InitCommon ==
    /\ fs = NoFs
    /\ exit_stack = <<>>
    /\ params = <<>>
    /\ out = <<>>
    /\ pc = "start"
    /\ err = "none"
    /\ calls = <<>>

\* The command line's defaults: --min-tls 1.3, no --pia
DefaultArgs == [min_tls |-> <<"1",".","3">>, provider_ext |-> "NONE"]

InitRT ==
    /\ lines \in FilesOver(RTLines, RTLastLines, MaxLines)
    /\ args = DefaultArgs
    /\ InitCommon

\* config = OVPNConfig.read(src)
ReadFile ==
    /\ pc = "start"
    /\ \E r \in {OVPNConfig_read(lines)} :
           /\ err' = r.err
           /\ pc' = IF r.err = "none" THEN "loaded" ELSE "failed"
           /\ params' = IF r.err = "none" THEN r.params ELSE <<>>
           /\ calls' = Append(calls, [op |-> "read", err |-> r.err, line |-> r.line])
    /\ UNCHANGED <<exit_stack, fs, lines, args, out>>

\* config.write(dest)
WriteFile ==
    /\ pc = "loaded"
    /\ out' = OVPNConfig_write(params)
    /\ pc' = "written"
    /\ UNCHANGED <<exit_stack, fs, lines, args, params, err, calls>>

NextRT == ReadFile \/ WriteFile

SpecRT == InitRT /\ [][NextRT]_vars

\* Profiles: at most MaxBlocks pieces; process_profile is applied at most MaxRuns
\* times to one document.
MaxBlocks == 3
MaxRuns == 2

RECURSIVE Flatten(_)
Flatten(blocks) ==
    IF blocks = <<>> THEN <<>> ELSE Head(blocks) \o Flatten(Tail(blocks))

\* cli(): the options are parsed once and passed to every process_profile call.
Init ==
    /\ lines \in {Flatten(b) : b \in UNION {[1..k -> ProfileBlocks] : k \in 0..MaxBlocks}}
    /\ args \in [min_tls : TLSVersion, provider_ext : ProviderExtensions]
    /\ InitCommon

Runs == Len(SelectSeq(calls, LAMBDA c : c.op # "read"))

\* process_profile(config, min_tls, provider_ext)
ProcessProfile ==
    /\ pc \in {"loaded", "processed"}
    /\ Runs < MaxRuns
    /\ \E r \in {process_profile(params, args.min_tls, args.provider_ext)} :
           /\ params' = r.params
           /\ err' = r.err
           /\ pc' = IF r.err = "none" THEN "processed" ELSE "failed"
           /\ calls' = Append(calls,
                [op |-> "process_profile", min_tls |-> args.min_tls,
                 provider_ext |-> args.provider_ext, before |-> params, err |-> r.err,
                 strength |-> r.strength, anchor |-> r.anchor,
                 inserted |-> r.inserted, pia_strength |-> r.pia_strength,
                 cipher_loc |-> r.cipher_loc, warned |-> r.warned])
    /\ UNCHANGED <<exit_stack, fs, lines, args, out>>

\* process_pia(config), called on its own
ProcessPia ==
    /\ pc = "loaded"
    /\ \E r \in {process_pia(params)} :
           /\ params' = r.params
           /\ err' = r.err
           /\ pc' = IF r.err = "none" THEN "processed" ELSE "failed"
           /\ calls' = Append(calls,
                [op |-> "process_pia", before |-> params, err |-> r.err,
                 pia_strength |-> r.strength, cipher_loc |-> r.cipher_loc])
    /\ UNCHANGED <<exit_stack, fs, lines, args, out>>

\* config.write(dest) after the transform
WriteProfile ==
    /\ pc = "processed"
    /\ out' = OVPNConfig_write(params)
    /\ pc' = "written"
    /\ UNCHANGED <<exit_stack, fs, lines, args, params, err, calls>>

Next ==
    \/ ReadFile
    \/ ProcessProfile
    \/ ProcessPia
    \/ WriteProfile

Spec == Init /\ [][Next]_vars

-----------------------------------------------------------------------------
(* The document operations called directly on an OVPNConfig *)

\* Documents edited through the API hold at most MaxDocLen elements (a call
\* that would leave more is not made).
MaxDocLen == 3
MaxDocBlocks == 2

DocBlocks == {<<L_param>>, <<L_flag>>, <<L_param_words>>, <<L_comment>>,
              <<L_blank>>, <<L_open, L_close>>, <<L_bogus>>}

\* The elements handed to add and insert: as the readers and the transform
\* build them (a name that is not empty, a comment that starts with "#").
ApiElements ==
    {BlankLine, Comment(L_comment), Parameter(<<"a","b">>, <<"x">>),
     Parameter(<<"a","b">>, None), Parameter(<<"c","d">>, <<"x"," ","y">>),
     Inline(<<"<","c","a",">">>, <<L_body>>)}
ApiKeys == {e.name : e \in ApiElements \ {BlankLine}}
ApiIndexes == -1..(MaxDocLen + 1)
\* start and end of index(): None, or a position (negative: from the end)
ApiBounds == {<<>>} \cup {<<n>> : n \in -1..2}

\* An OVPNConfig() built empty (pc = "new"), or a file about to be read.
InitDoc ==
    /\ \/ /\ lines \in {Flatten(b) : b \in UNION {[1..k -> DocBlocks] : k \in 0..MaxDocBlocks}}
          /\ pc = "start"
       \/ /\ lines = <<>>
          /\ pc = "new"
    /\ args = DefaultArgs
    /\ fs = NoFs
    /\ exit_stack = <<>>
    /\ params = <<>>
    /\ out = <<>>
    /\ err = "none"
    /\ calls = <<>>

\* After a direct call only that call is kept in calls.
ApiCall(op, a, r) ==
    /\ pc \in {"new", "edited"}
    /\ Len(r.params) <= MaxDocLen
    /\ params' = r.params
    /\ err' = r.err
    /\ pc' = "edited"
    /\ calls' = <<[op |-> op, args |-> a, before |-> params, err |-> r.err]>>
    /\ UNCHANGED <<exit_stack, fs, lines, args, out>>

\* config.add(new_param, exist_ok)
Add ==
    \E e \in ApiElements, exist_ok \in BOOLEAN :
        ApiCall("add", [param |-> e, exist_ok |-> exist_ok], add(params, e, exist_ok))

\* config.insert(index, param)
Insert ==
    \E i \in ApiIndexes, e \in ApiElements :
        ApiCall("insert", [index |-> i, param |-> e], insert(params, i, e))

\* del config[key] with a str key
DeleteName ==
    \E key \in ApiKeys : ApiCall("delitem", [key |-> key], DelItem(params, key))

\* del config[key] with an int key
DeleteIndex ==
    \E i \in ApiIndexes : ApiCall("delindex", [key |-> i], DelIndex(params, i))

\* A call that leaves the document as it is; ret is what it returned. Nothing
\* is done with the document after it.
ApiQuery(op, a, e, ret) ==
    /\ pc \in {"new", "loaded", "edited"}
    /\ err' = e
    /\ pc' = "queried"
    /\ calls' = <<[op |-> op, args |-> a, before |-> params, err |-> e, ret |-> ret]>>
    /\ UNCHANGED <<exit_stack, fs, lines, args, params, out>>

\* config[key] with a str key
GetName ==
    \E key \in ApiKeys :
        \E r \in {GetItem(params, key)} : ApiQuery("getitem", [key |-> key], r.err, r.ele)

\* key in config
ContainsName ==
    \E key \in ApiKeys :
        ApiQuery("contains", [key |-> key], "none", Contains(params, key))

\* config.index(key, start, end)
Index ==
    \E key \in ApiKeys, start \in ApiBounds, end \in ApiBounds :
        \E r \in {index(params, key, start, end)} :
            ApiQuery("index", [key |-> key, start |-> start, end |-> end], r.err, r.val)

NextDoc ==
    \/ ReadFile
    \/ Add
    \/ Insert
    \/ DeleteName
    \/ DeleteIndex
    \/ GetName
    \/ ContainsName
    \/ Index

SpecDoc == InitDoc /\ [][NextDoc]_vars

-----------------------------------------------------------------------------
(* cipher_strength() on profiles whose cipher value varies *)

\* A cipher value is made of at most MaxFrags fragments.
MaxFrags == 2

F_256 == <<"2","5","6">>
F_192 == <<"1","9","2">>
F_128 == <<"1","2","8">>
F_seed == <<"s","e","e","d","-">>
F_sm4 == <<"S","M","4","-">>
F_chacha == <<"C","h","a","C","h","a","2","0","-","P","o","l","y","1","3","0","5">>
F_aes == <<"a","e","s","-">>
F_bf == <<"B","F","-","C","B","C">>
F_25 == <<"2","5">>
F_6 == <<"6">>
F_19 == <<"1","9">>
F_2 == <<"2">>
F_see == <<"S","E","E">>
F_d == <<"D","-">>
P_auth == <<"a","u","t","h"," ","S","H","A","2","5","6","\n">>
S_cipher_sp == <<"c","i","p","h","e","r"," ">>

CipherFrags == {F_256, F_192, F_128, F_seed, F_sm4, F_chacha, F_aes, F_bf,
                F_25, F_6, F_19, F_2, F_see, F_d}
CipherValues == {Flatten(f) : f \in UNION {[1..k -> CipherFrags] : k \in 1..MaxFrags}}
CipherLines == {S_cipher_sp \o v \o S_nl : v \in CipherValues} \cup {S_cipher \o S_nl}

InitCipher ==
    /\ lines \in {<<c>> : c \in CipherLines}
                 \cup {<<P_auth, c>> : c \in CipherLines}
                 \cup {<<c, P_auth>> : c \in CipherLines}
    /\ args = DefaultArgs
    /\ InitCommon

\* config.cipher_strength()
CipherStrength ==
    /\ pc = "loaded"
    /\ \E r \in {cipher_strength(params)} :
           /\ err' = r.err
           /\ calls' = Append(calls, [op |-> "cipher_strength", err |-> r.err,
                                      val |-> r.val])
    /\ pc' = "classified"
    /\ UNCHANGED <<exit_stack, fs, lines, args, params, out>>

NextCipher == ReadFile \/ CipherStrength

SpecCipher == InitCipher /\ [][NextCipher]_vars

-----------------------------------------------------------------------------
(* process_profiles: one file, or a directory tree *)

\* A path is the sequence of its parts (pathlib's parts), each part a str; an
\* absolute path starts with the part "/". Nm holds the names used.
Nm == [root |-> <<"/">>, w |-> <<"w">>, src |-> <<"i","n">>, out |-> <<"o","u","t">>,
       a_ovpn |-> <<"a",".","o","v","p","n">>, b_ovpn |-> <<"b",".","o","v","p","n">>,
       readme |-> <<"R","E","A","D","M","E">>, c_pem |-> <<"c",".","p","e","m">>,
       sub |-> <<"s","u","b">>, s_d |-> <<"s",".","d">>,
       dot_ovpn |-> <<".","o","v","p","n">>]

\* The working directory, /w
Cwd == <<Nm.root, Nm.w>>

\* The file system object a path names: a relative path is taken from the
\* working directory.
Resolve(p) == IF p # <<>> /\ p[1] = Nm.root THEN p ELSE Cwd \o p

IsPrefix(a, b) == Len(a) <= Len(b) /\ SubSeq(b, 1, Len(a)) = a

\* PurePath.is_relative_to(other): other's parts, as written, begin p's parts
is_relative_to(p, other) == IsPrefix(other, p)

\* PurePath.suffix of a name: from the last "." on, unless that "." is the
\* first or the last character
suffix(name) ==
    LET dots == {i \in 1..Len(name) : name[i] = "."}
        i == CHOOSE k \in dots : \A m \in dots : m <= k
    IN  IF dots = {} THEN <<>>
        ELSE IF i = 1 \/ i = Len(name) THEN <<>>
        ELSE SubSeq(name, i, Len(name))

\* The names the pattern "*.*" matches: those with a "." in them
MatchesGlob(name) == \E i \in 1..Len(name) : name[i] = "."

\* src.rglob("*.*"): the files and directories below src, as paths relative to
\* src, whose name matches
Children(f) ==
    {SubSeq(p, Len(Resolve(f.src)) + 1, Len(p)) :
        p \in {q \in DOMAIN f.files \cup f.dirs :
                  /\ IsPrefix(Resolve(f.src), q)
                  /\ Len(q) > Len(Resolve(f.src))
                  /\ MatchesGlob(q[Len(q)])}}

\* The directories mkdir(parents=True) of the parent of p makes sure of
Parents(p) == {SubSeq(p, 1, k) : k \in 1..(Len(p) - 1)}

\* config = OVPNConfig.read(child); process_profile(config, ...);
\* config.write(dest_file): the exception and where it was raised, or the
\* lines written
Written(p) ==
    IF p.err # "none" THEN [err |-> p.err, at |-> "process_profile", out |-> <<>>]
    ELSE [err |-> "none", at |-> "write", out |-> OVPNConfig_write(p.params)]

Processed(r, a) ==
    IF r.err # "none" THEN [err |-> r.err, at |-> "read", out |-> <<>>]
    ELSE Written(process_profile(r.params, a.min_tls, a.provider_ext))

OneProfile(content, a) == Processed(OVPNConfig_read(content), a)

Put(fn, k, v) == [x \in DOMAIN fn \cup {k} |-> IF x = k THEN v ELSE fn[x]]

\* One file handled by process_profiles: the parent of the destination is made,
\* then the file is read, transformed and written (profile) or copied. The
\* result: the exception, the file system left (made: the directories created
\* so far) and the steps taken, in order.
Step(op, from, to, e) == [op |-> op, from |-> from, to |-> to, err |-> e]

Delivered(f, g, from, to, profile, r) ==
    IF \E q \in Parents(to) : q \in DOMAIN f.files
    THEN [err |-> "FileExistsError", fs |-> f,
          events |-> <<Step("mkdir", from, to, "FileExistsError")>>]
    ELSE IF from \in f.dirs
    THEN [err |-> "IsADirectoryError", fs |-> g,
          events |-> <<Step("mkdir", from, to, "none"),
                       Step(IF profile THEN "read" ELSE "copy", from, to,
                            "IsADirectoryError")>>]
    ELSE IF ~profile
    THEN [err |-> "none", fs |-> [g EXCEPT !.files = Put(@, to, f.files[from])],
          events |-> <<Step("mkdir", from, to, "none"), Step("copy", from, to, "none")>>]
    ELSE IF r.err # "none"
    THEN [err |-> r.err, fs |-> g,
          events |-> IF r.at = "read"
                     THEN <<Step("mkdir", from, to, "none"), Step("read", from, to, r.err)>>
                     ELSE <<Step("mkdir", from, to, "none"), Step("read", from, to, "none"),
                            Step("process_profile", from, to, r.err)>>]
    ELSE [err |-> "none", fs |-> [g EXCEPT !.files = Put(@, to, r.out)],
          events |-> <<Step("mkdir", from, to, "none"), Step("read", from, to, "none"),
                       Step("process_profile", from, to, "none"),
                       Step("write", from, to, "none")>>]

Deliver(f, from, to, profile, a) ==
    Delivered(f, [f EXCEPT !.dirs = @ \cup Parents(to),
                           !.made = @ \cup (Parents(to) \ f.dirs)],
              from, to, profile,
              IF profile /\ from \in DOMAIN f.files
              THEN OneProfile(f.files[from], a)
              ELSE [err |-> "none", at |-> "none", out |-> <<>>])

\* No path the walk writes to has more than MaxDepth parts.
MaxDepth == 6

\* The contents of the files below src
DirProfiles == {<<P_cipher_256>>, <<L_bogus>>}
DirOther == <<L_param_2sp>>
DirFiles == {<<Nm.a_ovpn>>, <<Nm.readme>>, <<Nm.c_pem>>, <<Nm.sub, Nm.b_ovpn>>}

\* What src names: nothing, one profile, or a directory holding some of
\* DirFiles (with the directory sub when needed) and perhaps the empty
\* directory s.d. Paths are relative to src, <<>> being src itself.
DirTrees ==
    {[files |-> [x \in {} |-> <<>>], dirs |-> {}]}
    \cup {[files |-> [x \in {<<>>} |-> c], dirs |-> {}] : c \in DirProfiles}
    \cup {[files |-> c, dirs |-> {<<>>} \cup d
                                 \cup {<<Nm.sub>> : x \in DOMAIN c \cap {<<Nm.sub, Nm.b_ovpn>>}}] :
             c \in UNION {{h \in [S -> DirProfiles \cup {DirOther}] :
                              \A p \in S : (h[p] \in DirProfiles)
                                              <=> (suffix(p[Len(p)]) = Nm.dot_ovpn)} :
                          S \in SUBSET DirFiles},
             d \in {{}, {<<Nm.s_d>>}}}

DirSrcs == {<<Nm.src>>, Cwd \o <<Nm.src>>}
DirDests == {<<Nm.out>>, <<Nm.src>>, <<Nm.src, Nm.out>>, Cwd \o <<Nm.src, Nm.out>>,
             Cwd \o <<Nm.out>>}

\* The file system with tree t at src
MakeFs(src, dest, t) ==
    LET at == Resolve(src)
        files == [p \in {at \o r : r \in DOMAIN t.files} |->
                     t.files[SubSeq(p, Len(at) + 1, Len(p))]]
        f == [src |-> src, dest |-> dest,
              dirs |-> {<<Nm.root>>, Cwd} \cup {at \o r : r \in t.dirs},
              files |-> files, orig |-> files, made |-> {}, start |-> {}, seen |-> {}]
    IN  [f EXCEPT !.start = Children(f)]

\* cli() hands process_profiles the source and the destination as given.
InitDir ==
    /\ fs \in {MakeFs(s, d, t) : s \in DirSrcs, d \in DirDests, t \in DirTrees}
    /\ exit_stack = <<>>
    /\ args = DefaultArgs
    /\ lines = <<>>
    /\ params = <<>>
    /\ out = <<>>
    /\ pc = "start"
    /\ err = "none"
    /\ calls = <<>>

\* process_profiles, src.is_file(): the one profile is read, transformed, written
ProcessFile ==
    /\ pc = "start"
    /\ Resolve(fs.src) \in DOMAIN fs.files
    /\ \E r \in {Deliver(fs, Resolve(fs.src), Resolve(fs.dest), TRUE, args)} :
           /\ fs' = r.fs
           /\ err' = r.err
           /\ pc' = IF r.err = "none" THEN "done" ELSE "failed"
           /\ calls' = r.events
    /\ UNCHANGED <<exit_stack, lines, args, params, out>>

\* process_profiles, src is not a file: the walk starts, unless dest is
\* relative to src or src is no directory
StartWalk ==
    /\ pc = "start"
    /\ Resolve(fs.src) \notin DOMAIN fs.files
    /\ IF Resolve(fs.src) \in fs.dirs
       THEN IF is_relative_to(fs.dest, fs.src)
            THEN /\ pc' = "failed"
                 /\ err' = "ValueError: dest path cannot be relative to src path"
            ELSE /\ pc' = "walking"
                 /\ err' = "none"
       ELSE /\ pc' = "failed"
            /\ err' = "ValueError: Source does not exist"
    /\ UNCHANGED <<exit_stack, fs, lines, args, params, out, calls>>

\* Faulty variant: a file that fails is skipped and the walk goes on
VisitChild_KeepGoing ==
    /\ pc = "walking"
    /\ \E rel \in Children(fs) \ fs.seen :
           /\ Len(Resolve(fs.dest) \o rel) <= MaxDepth
           /\ \E r \in {Deliver([fs EXCEPT !.seen = @ \cup {rel}],
                                Resolve(fs.src) \o rel, Resolve(fs.dest) \o rel,
                                suffix(rel[Len(rel)]) = Nm.dot_ovpn, args)} :
                  /\ fs' = r.fs
                  /\ err' = r.err
                  /\ pc' = "walking"
                  /\ calls' = r.events
    /\ UNCHANGED <<exit_stack, lines, args, params, out>>

\* One turn of the loop over src.rglob("*.*"), in whatever order the
\* directories are listed; what the walk itself wrote below src may turn up.
\* calls keeps the steps of the last turn only.
VisitChild ==
    /\ pc = "walking"
    /\ \E rel \in Children(fs) \ fs.seen :
           /\ Len(Resolve(fs.dest) \o rel) <= MaxDepth
           /\ \E r \in {Deliver([fs EXCEPT !.seen = @ \cup {rel}],
                                Resolve(fs.src) \o rel, Resolve(fs.dest) \o rel,
                                suffix(rel[Len(rel)]) = Nm.dot_ovpn, args)} :
                  /\ fs' = r.fs
                  /\ err' = r.err
                  /\ pc' = IF r.err = "none" THEN "walking" ELSE "failed"
                  /\ calls' = r.events
    /\ UNCHANGED <<exit_stack, lines, args, params, out>>

\* The loop ends: everything that was below src when the walk began has had
\* its turn
FinishWalk ==
    /\ pc = "walking"
    /\ fs.start \subseteq fs.seen
    /\ pc' = "done"
    /\ UNCHANGED <<exit_stack, fs, lines, args, params, out, err, calls>>

NextDir ==
    \/ ProcessFile
    \/ StartWalk
    \/ VisitChild
    \/ FinishWalk

SpecDir == InitDir /\ [][NextDir]_vars

-----------------------------------------------------------------------------
(* input_handlers.py: HandleDownload, HandleZip, ResolveSource *)

\* The sources given on the command line, and the local names among them
Src == [http |-> <<"h","t","t","p",":","/","/","h","/","p">>,
        https |-> <<"h","t","t","p","s",":","/","/","h","/","p">>,
        ftp |-> <<"f","t","p",":","/","/","h","/","p">>,
        upper |-> <<"H","T","T","P",":","/","/","h","/","p">>,
        no_scheme |-> <<":","/","/","h">>,
        p_zip |-> <<"p",".","z","i","p">>,
        d |-> <<"d">>,
        nothing |-> <<"n","o">>]

\* What tempfile.mkstemp() and tempfile.mkdtemp() create, and the member a ZIP
\* archive is extracted to
Tmp == [file |-> <<Nm.root, <<"t","m","p">>, <<"f">>>>,
        dir |-> <<Nm.root, <<"t","m","p">>, <<"d">>>>,
        member |-> <<Nm.root, <<"t","m","p">>, <<"d">>, Nm.a_ovpn>>]

\* re.search(r"^[a-zA-Z0-9]+://", s)
SchemeMatch(s) ==
    \E k \in 1..(Len(s) - 3) :
        /\ \A i \in 1..k :
              \/ s[i] \in AlNum
              \/ \E j \in 1..Len(UpperSeq) : UpperSeq[j] = s[i]
        /\ SubSeq(s, k + 1, k + 3) = <<":", "/", "/">>

\* s.startswith("http://") or s.startswith("https://")
IsHttp(s) ==
    \/ startswith(s, <<"h","t","t","p",":","/","/">>)
    \/ startswith(s, <<"h","t","t","p","s",":","/","/">>)

\* What a file holds, as zipfile.ZipFile sees it: an archive it extracts, no
\* archive at all (BadZipFile), or an archive extractall() gives up on with
\* another exception (a password-protected member: RuntimeError)
Contents == {"zip", "text", "locked zip"}

\* A download is at most MaxChunks full chunks and a short one.
MaxChunks == 2

\* shutil.rmtree(d): d and everything below it
rmtree(f, d) ==
    [f EXCEPT !.dirs = {q \in @ : ~IsPrefix(d, q)},
              !.files = [q \in {x \in DOMAIN @ : ~IsPrefix(d, x)} |-> @[q]]]

\* Path.unlink()
unlink(f, p) == [f EXCEPT !.files = [q \in DOMAIN @ \ {p} |-> @[q]]]

\* HandleZip.__init__ in a file system f: the exception, the file system left
\* (made: every temporary file and directory created so far)
HandleZip_init(f, src) ==
    IF f.files[Resolve(src)].kind = "zip"
    THEN [err |-> "none",
          fs |-> [f EXCEPT !.dirs = @ \cup {Tmp.dir}, !.made = @ \cup {Tmp.dir},
                           !.files = Put(@, Tmp.member, [kind |-> "text", chunks |-> 0])]]
    ELSE [err |-> IF f.files[Resolve(src)].kind = "text" THEN "BadZipFile"
                  ELSE "RuntimeError",
          fs |-> rmtree([f EXCEPT !.dirs = @ \cup {Tmp.dir}, !.made = @ \cup {Tmp.dir}],
                        Tmp.dir)]

\* ExitStack.close(): the __exit__ of every context manager entered, last first
RECURSIVE CloseAll(_, _)
CloseAll(f, stack) ==
    IF stack = <<>> THEN f
    ELSE CloseAll(IF stack[Len(stack)].cm = "HandleZip"
                  THEN rmtree(f, stack[Len(stack)].temp)
                  ELSE unlink(f, stack[Len(stack)].temp),
                  SubSeq(stack, 1, Len(stack) - 1))

\* cli(): ResolveSource(args.source) is about to be built; the working directory
\* holds the file p.zip and the directory d.
InitSrc ==
    /\ args \in {[min_tls |-> DefaultArgs.min_tls, provider_ext |-> DefaultArgs.provider_ext,
                  source |-> Src[n]] : n \in DOMAIN Src}
    /\ fs \in {[NoFs EXCEPT !.dirs = {<<Nm.root>>, Cwd, Cwd \o <<Src.d>>},
                            !.files = [q \in {Cwd \o <<Src.p_zip>>} |->
                                          [kind |-> k, chunks |-> 0]]] :
               k \in Contents}
    /\ exit_stack = <<>>
    /\ lines = <<>>
    /\ params = <<>>
    /\ out = <<>>
    /\ pc = "start"
    /\ err = "none"
    /\ calls = <<>>

\* ResolveSource.__init__ up to self.path: a local path is taken as it is;
\* a URL is handed to HandleDownload.__init__, which opens it and, on code
\* 200, creates the temporary file
Locate ==
    /\ pc = "start"
    /\ IF ~SchemeMatch(args.source)
       THEN /\ fs' = [fs EXCEPT !.src = <<args.source>>]
            /\ pc' = "located"
            /\ err' = "none"
       ELSE IF ~IsHttp(args.source)
       THEN /\ pc' = "failed"
            /\ err' = "ValueError: Only HTTP(S) supported as remote protocol"
            /\ UNCHANGED fs
       ELSE \E resp \in {"URLError", "404", "200"} :
               IF resp = "200"
               THEN /\ fs' = [fs EXCEPT !.made = @ \cup {Tmp.file},
                                        !.files = Put(@, Tmp.file,
                                                      [kind |-> "partial", chunks |-> 0])]
                    /\ pc' = "downloading"
                    /\ err' = "none"
               ELSE /\ pc' = "failed"
                    /\ err' = IF resp = "404"
                              THEN "ValueError: Could not download remote file"
                              ELSE resp
                    /\ UNCHANGED fs
    /\ calls' = Append(calls, [op |-> "locate", err |-> err'])
    /\ UNCHANGED <<exit_stack, lines, args, params, out>>

\* One turn of the loop of HandleDownload.__init__: resp.read(8192) returns a
\* full chunk, or a short one (the file is complete and ResolveSource enters
\* the HandleDownload context), or raises (the temporary file is unlinked)
ReadChunk ==
    /\ pc = "downloading"
    /\ \/ /\ fs.files[Tmp.file].chunks < MaxChunks
          /\ fs' = [fs EXCEPT !.files[Tmp.file].chunks = @ + 1]
          /\ pc' = "downloading"
          /\ err' = "none"
          /\ UNCHANGED exit_stack
       \/ \E k \in Contents :
             /\ fs' = [fs EXCEPT !.files[Tmp.file].kind = k, !.src = Tmp.file]
             /\ exit_stack' = Append(exit_stack, [cm |-> "HandleDownload", temp |-> Tmp.file])
             /\ pc' = "located"
             /\ err' = "none"
       \/ /\ fs' = unlink(fs, Tmp.file)
          /\ pc' = "failed"
          /\ err' = "OSError"
          /\ UNCHANGED exit_stack
    /\ calls' = Append(calls, [op |-> "read_chunk", err |-> err'])
    /\ UNCHANGED <<lines, args, params, out>>

\* The rest of ResolveSource.__init__: a file is handed to HandleZip (BadZipFile
\* is passed over), a directory is taken as it is, anything else is refused
Unpack ==
    /\ pc = "located"
    /\ IF Resolve(fs.src) \in DOMAIN fs.files
       THEN \E r \in {HandleZip_init(fs, fs.src)} :
               /\ fs' = IF r.err = "none" THEN [r.fs EXCEPT !.src = Tmp.dir] ELSE r.fs
               /\ exit_stack' = IF r.err = "none"
                                THEN Append(exit_stack, [cm |-> "HandleZip", temp |-> Tmp.dir])
                                ELSE exit_stack
               /\ err' = IF r.err = "BadZipFile" THEN "none" ELSE r.err
               /\ pc' = IF r.err \in {"none", "BadZipFile"} THEN "ready" ELSE "failed"
       ELSE IF Resolve(fs.src) \in fs.dirs
       THEN /\ pc' = "ready"
            /\ err' = "none"
            /\ UNCHANGED <<fs, exit_stack>>
       ELSE /\ pc' = "failed"
            /\ err' = "ValueError: Path does not exist"
            /\ UNCHANGED <<fs, exit_stack>>
    /\ calls' = Append(calls, [op |-> "unpack", err |-> err'])
    /\ UNCHANGED <<lines, args, params, out>>

\* with ResolveSource(args.source) as src: process_profiles(src, ...) returns
\* or raises
RunBody ==
    /\ pc = "ready"
    /\ \E e \in {"none", "ValueError: Unknown config file line", "KeyError"} :
          /\ err' = e
          /\ calls' = Append(calls, [op |-> "process_profiles", err |-> e])
    /\ pc' = "leaving"
    /\ UNCHANGED <<exit_stack, fs, lines, args, params, out>>

\* ResolveSource.__exit__
Exit ==
    /\ pc = "leaving"
    /\ fs' = CloseAll(fs, exit_stack)
    /\ exit_stack' = <<>>
    /\ pc' = "exited"
    /\ calls' = Append(calls, [op |-> "exit", err |-> "none"])
    /\ UNCHANGED <<lines, args, params, out, err>>

NextSrc ==
    \/ Locate
    \/ ReadChunk
    \/ Unpack
    \/ RunBody
    \/ Exit

SpecSrc == InitSrc /\ [][NextSrc]_vars

-----------------------------------------------------------------------------
(* The four readers, each applied to the head of a text *)

L_upper == <<"A","b"," ","x","\n">>
L_tab_words == <<"c","d","\t","x"," ","y","\n">>
P_cipher_tab == <<"c","i","p","h","e","r","\t","A","E","S","-","2","5","6","-","C","B","C","\n">>

ReaderLines == RTLines \cup {L_upper, L_tab_words, P_cipher_tab}

\* [BlankLine, Comment, Inline, Parameter] of OVPNConfig.read
Parsers == {"BlankLine", "Comment", "Inline", "Parameter"}

\* parser.read(config)
ParserRead(parser, config) ==
    CASE parser = "BlankLine" -> BlankLine_read(config)
      [] parser = "Comment"   -> Comment_read(config)
      [] parser = "Inline"    -> Inline_read(config)
      [] parser = "Parameter" -> Parameter_read(config)

\* A text that is not empty: OVPNConfig.read calls the readers while lines remain.
InitReaders ==
    /\ lines \in FilesOver(ReaderLines, RTLastLines, MaxLines) \ {<<>>}
    /\ args = DefaultArgs
    /\ InitCommon

\* ele = parser.read(lines), called on its own: calls keeps what it returned
\* (ok, ele) or the ValueError it raised (why)
ReadElement ==
    /\ pc = "start"
    /\ \E parser \in Parsers :
          \E r \in {ParserRead(parser, lines)} :
              /\ calls' = <<[op |-> "read_element", parser |-> parser, ok |-> r.ok,
                             ele |-> r.ele, why |-> r.why]>>
              /\ err' = IF r.ok THEN "none" ELSE "ValueError"
    /\ pc' = "parsed"
    /\ UNCHANGED <<exit_stack, fs, lines, args, params, out>>

NextReaders == ReadElement \/ ReadFile

SpecReaders == InitReaders /\ [][NextReaders]_vars

-----------------------------------------------------------------------------
(* Round trip: OVPNConfig.read then OVPNConfig.write *)

\* A line in the form the writers emit: terminated by "\n", no whitespace at
\* either end, no whitespace right after its first space (unless it is a
\* comment), and nothing after the ">" of a line that starts with "<".
CanonicalLine(l) ==
    /\ Len(l) >= 1
    /\ l[Len(l)] = "\n"
    /\ LET core == SubSeq(l, 1, Len(l) - 1)
       IN  /\ strip(core) = core
           /\ \/ startswith(core, <<"#">>)
              \/ startswith(core, <<";">>)
              \/ \A i \in 1..(Len(core) - 1) :
                    (core[i] = " " /\ \A j \in 1..(i - 1) : core[j] # " ")
                        => core[i + 1] \notin Whitespace
           /\ startswith(core, S_lt) => \A i \in 1..(Len(core) - 1) : core[i] # ">"

CanonicalText(ls) == \A i \in 1..Len(ls) : CanonicalLine(ls[i])

-----------------------------------------------------------------------------
(* Unique names *)

NamedKinds == {"Parameter", "Inline"}

UniqueNames(ps) ==
    \A i, j \in 1..Len(ps) :
        (i # j /\ ps[i].kind \in NamedKinds /\ ps[j].kind \in NamedKinds)
            => ps[i].name # ps[j].name

\* The elements the readers recognise at the head of a text, in order, up to its
\* end or its first unrecognised line (no add() involved).
RECURSIVE Recognise(_)
Recognise(ls) ==
    IF ls = <<>> \/ ~FirstParser(ls).ok THEN <<>>
    ELSE <<FirstParser(ls).ele>>
         \o Recognise(SubSeq(ls, ElemLen(FirstParser(ls).ele) + 1, Len(ls)))

\* C2: no two Parameter/Inline elements of the document share a name, after a
\* read and after every add, insert and delete on a config built empty; and
\* reading a text in which a directive or tag name is repeated fails with KeyError.
C2_UniqueNames ==
    /\ UniqueNames(params)
    /\ (calls # <<>> /\ calls[1].op = "read" /\ ~UniqueNames(Recognise(lines)))
          => (pc = "failed" /\ err = "KeyError")

\* An insert of a second Parameter of the same name was refused in a document
\* that holds the same comment twice.
C2_Witness ==
    /\ pc = "edited"
    /\ calls[1].op = "insert"
    /\ calls[1].args.param.kind = "Parameter"
    /\ err = "KeyError"
    /\ \E i, j \in 1..Len(params) :
          i # j /\ params[i].kind = "Comment" /\ params[i] = params[j]
    /\ \E i \in 1..Len(params) : params[i].kind = "Parameter"

-----------------------------------------------------------------------------
(* process_profile and process_pia *)

TlsNames == {S_tls_version_min, S_tls_cipher, S_tls_groups, S_tls_ciphersuites}
PiaNames == {S_cipher, S_data_ciphers, S_ncp_disable}

\* The calls of process_profile that returned
Completed(op) == {i \in 1..Len(calls) : calls[i].op = op /\ calls[i].err = "none"}

\* The document call i left behind
After(i) == IF i = Len(calls) THEN params ELSE calls[i + 1].before

Count(ps, key) == Cardinality(Named(ps, key))
ValueOf(ps, key) == ps[First(Named(ps, key))].value
OneParameter(ps, key) ==
    Count(ps, key) = 1 /\ ps[First(Named(ps, key))].kind = "Parameter"

StrongTls(d) ==
    /\ ValueOf(d, S_tls_cipher) = TLS_CIPHER_STRONG
    /\ ValueOf(d, S_tls_groups) = TLS_GROUPS_STRONG
    /\ ValueOf(d, S_tls_ciphersuites) = TLS_CIPHERSUITES_STRONG

BaselineTls(d) ==
    /\ ValueOf(d, S_tls_cipher) = TLS_CIPHER_BASE
    /\ ValueOf(d, S_tls_groups) = TLS_GROUPS_BASE
    /\ ValueOf(d, S_tls_ciphersuites) = TLS_CIPHERSUITES_BASE

\* C3: after process_profile returns, the document holds exactly one parameter
\* of each TLS name; tls-version-min is "<min_tls> or-highest" and the other
\* three carry the strong literals when the class computed on entry is STRONG
\* or MEDIUM and the baseline literals when it is ACCEPTABLE or WEAK.
C3_TlsSettings ==
    \A i \in Completed("process_profile") :
        LET d == After(i)
        IN  /\ \A n \in TlsNames : OneParameter(d, n)
            /\ ValueOf(d, S_tls_version_min) = calls[i].min_tls \o S_or_highest
            /\ calls[i].strength \in {"STRONG", "MEDIUM"} => StrongTls(d)
            /\ calls[i].strength \in {"ACCEPTABLE", "WEAK"} => BaselineTls(d)
            /\ calls[i].strength \in {"STRONG", "MEDIUM", "ACCEPTABLE", "WEAK"}

\* process_profile returned on a MEDIUM profile that came with its own
\* tls-version-min.
C3_Witness ==
    \E i \in Completed("process_profile") :
        /\ calls[i].strength = "MEDIUM"
        /\ Contains(calls[i].before, S_tls_version_min)
        /\ StrongTls(After(i))

-----------------------------------------------------------------------------
(* cipher_strength *)

\* sub occurs in v when letter case is ignored (sub is upper case)
HasCI(v, sub) ==
    \E i \in 1..(Len(v) - Len(sub) + 1) :
        \A k \in 1..Len(sub) : upper(<<v[i + k - 1]>>) = <<sub[k]>>

\* The class the rules give to the text that follows "cipher" on its line
\* (<<>> when nothing follows).
RuleClass(v) ==
    IF HasCI(v, S_256) \/ HasCI(v, S_CHACHA) THEN "STRONG"
    ELSE IF HasCI(v, S_192) THEN "MEDIUM"
    ELSE IF HasCI(v, S_128) \/ HasCI(v, S_SEED) \/ HasCI(v, S_SM4) THEN "ACCEPTABLE"
    ELSE "WEAK"

\* The text after the keyword on the file's cipher line
CipherText(ls) ==
    LET i == CHOOSE k \in 1..Len(ls) : startswith(ls[k], S_cipher)
    IN  SubSeq(ls[i], Len(S_cipher) + 2, Len(ls[i]) - 1)

\* C4: cipher_strength() returns the class the rules give to the cipher line's
\* value, compared without regard to case, first matching rule winning,
\* whatever else the profile holds; a cipher without a value is WEAK.
C4_CipherStrength ==
    pc = "classified" =>
        /\ calls[Len(calls)].err = "none"
        /\ calls[Len(calls)].val = RuleClass(CipherText(lines))

\* A value holding both "192" and "256" was classified STRONG.
C4_Witness ==
    /\ pc = "classified"
    /\ HasCI(CipherText(lines), S_192)
    /\ HasCI(CipherText(lines), S_256)
    /\ calls[Len(calls)].val = "STRONG"

\* C5: on a document without a cipher parameter process_profile, with no
\* provider extension, returns and installs the baseline TLS settings (the
\* class being WEAK).
C5_NoCipherIsWeak ==
    \A i \in 1..Len(calls) :
        (/\ calls[i].op = "process_profile"
         /\ calls[i].provider_ext = "NONE"
         /\ ~Contains(calls[i].before, S_cipher))
            => /\ calls[i].err = "none"
               /\ calls[i].strength = "WEAK"
               /\ BaselineTls(After(i))

-----------------------------------------------------------------------------
(* Re-application *)

TlsValues(d) == [n \in TlsNames |-> ValueOf(d, n)]

\* Two successive calls of process_profile (same options) that both returned
Reapplied == {i \in Completed("process_profile") : i + 1 \in Completed("process_profile")}

\* C6: after the second of two successive applications of process_profile with
\* the same options the four TLS settings have the values they had after the
\* first, with either provider extension and for every starting cipher.
C6_SameTlsAfterSecond ==
    \A i \in Reapplied : TlsValues(After(i + 1)) = TlsValues(After(i))

-----------------------------------------------------------------------------
(* What process_profile leaves alone, and where it inserts *)

NotTls(e) == e.name \notin TlsNames

\* d is base with a run of n elements spliced in at some position
SplicedInto(d, base, n) ==
    /\ Len(d) = Len(base) + n
    /\ \E a \in 0..Len(base) :
          /\ SubSeq(d, 1, a) = SubSeq(base, 1, a)
          /\ SubSeq(d, a + n + 1, Len(d)) = SubSeq(base, a + 1, Len(base))

\* C7: with no provider extension the elements of the original document other
\* than the four TLS parameters are all still there after process_profile,
\* unchanged and in their order; only the inserted run is new.
C7_OnlyTlsChanges ==
    \A i \in Completed("process_profile") :
        calls[i].provider_ext = "NONE"
            => SplicedInto(After(i), SelectSeq(calls[i].before, NotTls), 8)

\* process_profile without extension returned on a profile holding a cipher, an
\* old TLS parameter and an inline block.
C7_Witness ==
    \E i \in Completed("process_profile") :
        /\ calls[i].provider_ext = "NONE"
        /\ Contains(calls[i].before, S_cipher)
        /\ Contains(After(i), S_cipher)
        /\ \E n \in TlsNames : Contains(calls[i].before, n)
        /\ \E k \in 1..Len(calls[i].before) : calls[i].before[k].kind = "Inline"

Inlines(d) == {k \in 1..Len(d) : d[k].kind = "Inline"}

\* The smallest (0-based) index of an Inline element, the length when there is none
FirstInlineOrEnd(d) ==
    IF Inlines(d) = {} THEN Len(d)
    ELSE (CHOOSE k \in Inlines(d) : \A m \in Inlines(d) : k <= m) - 1

\* d holds, from 0-based position a on, a BlankLine, the Begin comment, four
\* parameters that are the TLS settings, the End comment and a BlankLine.
TlsRunAt(d, a) ==
    /\ Len(d) >= a + 8
    /\ d[a + 1] = BlankLine
    /\ d[a + 2] = Comment(BEGIN_COMMENT)
    /\ {d[a + k].name : k \in 3..6} = TlsNames
    /\ \A k \in 3..6 : d[a + k].kind = "Parameter"
    /\ d[a + 7] = Comment(END_COMMENT)
    /\ d[a + 8] = BlankLine

\* C8: process_profile puts its run in one piece at last_before_inline() of the
\* document left by deleting the old TLS parameters, that is at the first Inline
\* element or at the end; the run, and in the final document every TLS
\* parameter, precedes every Inline element.
C8_RunBeforeInlines ==
    \A i \in Completed("process_profile") :
        LET cleared == SelectSeq(calls[i].before, NotTls)
            a == FirstInlineOrEnd(cleared)
            d == calls[i].inserted
        IN  /\ calls[i].anchor = a
            /\ TlsRunAt(d, a)
            /\ SubSeq(d, 1, a) = SubSeq(cleared, 1, a)
            /\ SubSeq(d, a + 9, Len(d)) = SubSeq(cleared, a + 1, Len(cleared))
            /\ \A k \in Inlines(d) : k > a + 8
            /\ \A n \in TlsNames, k \in Inlines(After(i)) : First(Named(After(i), n)) < k

\* process_profile returned on a profile with an inline block followed by an
\* old TLS parameter and preceded by another element.
C8_Witness ==
    \E i \in Completed("process_profile") :
        LET b == calls[i].before
        IN  \E k \in Inlines(b) :
              /\ k > 1
              /\ \E m \in (k + 1)..Len(b) : b[m].name \in TlsNames

Pos(d, key) == First(Named(d, key))

\* C9 as stated: the four settings, inserted in the order tls-version-min,
\* tls-cipher, tls-groups, tls-ciphersuites, stand in the document in the
\* reverse of that order.
C9_ReverseOrder ==
    \A i \in Completed("process_profile") :
        LET d == After(i)
        IN  /\ Pos(d, S_tls_ciphersuites) < Pos(d, S_tls_groups)
            /\ Pos(d, S_tls_groups) < Pos(d, S_tls_cipher)
            /\ Pos(d, S_tls_cipher) < Pos(d, S_tls_version_min)

\* C9 amended: each setting is inserted one position after the one before it,
\* so the four stand in the document in the order they are inserted in:
\* tls-version-min, tls-cipher, tls-groups, tls-ciphersuites, one after another.
C9_InsertionOrder ==
    \A i \in Completed("process_profile") :
        LET d == After(i)
        IN  /\ Pos(d, S_tls_cipher) = Pos(d, S_tls_version_min) + 1
            /\ Pos(d, S_tls_groups) = Pos(d, S_tls_cipher) + 1
            /\ Pos(d, S_tls_ciphersuites) = Pos(d, S_tls_groups) + 1

\* process_profile returned on a profile that had tls-ciphersuites before
\* tls-version-min.
C9_Witness ==
    \E i \in Completed("process_profile") :
        LET b == calls[i].before
        IN  /\ Contains(b, S_tls_ciphersuites)
            /\ Contains(b, S_tls_version_min)
            /\ Pos(b, S_tls_ciphersuites) < Pos(b, S_tls_version_min)
            /\ Pos(After(i), S_tls_version_min) < Pos(After(i), S_tls_ciphersuites)

\* The calls in which process_pia ran and returned
PiaRan ==
    Completed("process_pia")
    \cup {i \in Completed("process_profile") : calls[i].provider_ext = "PIA"}

\* C10: after process_pia returns, the document holds exactly one cipher, one
\* data-ciphers and one ncp-disable parameter, ncp-disable without a value;
\* cipher and data-ciphers are the 256-bit bundle when the class computed on
\* entry to process_pia is STRONG and the 128-bit bundle for the other classes.
C10_PiaBundle ==
    \A i \in PiaRan :
        LET d == After(i)
        IN  /\ \A n \in PiaNames : OneParameter(d, n)
            /\ ValueOf(d, S_ncp_disable) = None
            /\ calls[i].pia_strength \in {"STRONG", "MEDIUM", "ACCEPTABLE", "WEAK"}
            /\ calls[i].pia_strength = "STRONG"
                  => /\ ValueOf(d, S_cipher) = PIA_CIPHER_STRONG
                     /\ ValueOf(d, S_data_ciphers) = PIA_DATA_STRONG
            /\ calls[i].pia_strength # "STRONG"
                  => /\ ValueOf(d, S_cipher) = PIA_CIPHER_BASE
                     /\ ValueOf(d, S_data_ciphers) = PIA_DATA_BASE

\* process_pia returned on a MEDIUM profile that came with its own data-ciphers.
C10_Witness ==
    \E i \in PiaRan :
        /\ calls[i].pia_strength = "MEDIUM"
        /\ Contains(calls[i].before, S_data_ciphers)
        /\ ValueOf(After(i), S_cipher) = PIA_CIPHER_BASE

-----------------------------------------------------------------------------
(* The document operations, one call at a time *)

\* The last call made on the document was op
DocCall(op) == calls # <<>> /\ calls[1].op = op

\* Positions (from 1) of the elements of d named key
Hits(d, key) == {k \in 1..Len(d) : d[k].name = key}

Least(S) == CHOOSE k \in S : \A m \in S : k <= m

\* d is b with e put in so that p elements of b precede it
PutAt(d, b, p, e) ==
    /\ Len(d) = Len(b) + 1
    /\ d[p + 1] = e
    /\ \A k \in 1..p : d[k] = b[k]
    /\ \A k \in (p + 1)..Len(b) : d[k + 1] = b[k]

\* d is b with its k-th element taken out
TakenOut(d, b, k) ==
    /\ Len(d) = Len(b) - 1
    /\ \A m \in 1..(k - 1) : d[m] = b[m]
    /\ \A m \in (k + 1)..Len(b) : d[m - 1] = b[m]

\* C13: insert(index, element) raises KeyError, leaving the document as it was,
\* exactly when the element is a Parameter or Inline and a Parameter or Inline of
\* the same name is in the document; otherwise the element is put at position
\* index (an index past the end means the end, a negative one counts from the
\* end) and the later elements move up by one.
C13_InsertOrRefuse ==
    DocCall("insert") =>
        LET b == calls[1].before
            e == calls[1].args.param
            i == calls[1].args.index
            n == Len(b)
            dup == /\ e.kind \in NamedKinds
                   /\ \E k \in 1..n : b[k].kind \in NamedKinds /\ b[k].name = e.name
            p == IF i > n THEN n ELSE IF i >= 0 THEN i ELSE IF n + i < 0 THEN 0 ELSE n + i
        IN  IF dup THEN err = "KeyError" /\ params = b
            ELSE err = "none" /\ PutAt(params, b, p, e)

\* A comment the document already holds was inserted between two elements.
C13_Witness ==
    /\ DocCall("insert")
    /\ err = "none"
    /\ calls[1].args.param.kind = "Comment"
    /\ calls[1].args.index > 0
    /\ calls[1].args.index < Len(calls[1].before)
    /\ \E k \in 1..Len(calls[1].before) : calls[1].before[k] = calls[1].args.param
    /\ params[calls[1].args.index + 1] = calls[1].args.param

\* C14: add(new_param, exist_ok) appends a BlankLine or Comment always; another
\* element is appended when no element has its name; when one has, exist_ok=True
\* puts the new element in the place of the first such element (length
\* unchanged) and exist_ok=False raises KeyError and leaves the document as it was.
C14_AddOrReplace ==
    DocCall("add") =>
        LET b == calls[1].before
            e == calls[1].args.param
            same == Hits(b, e.name)
        IN  IF e.kind \in {"BlankLine", "Comment"} \/ same = {}
            THEN err = "none" /\ params = Append(b, e)
            ELSE IF calls[1].args.exist_ok
            THEN /\ err = "none"
                 /\ Len(params) = Len(b)
                 /\ \A k \in 1..Len(b) :
                       params[k] = IF k = Least(same) THEN e ELSE b[k]
            ELSE err = "KeyError" /\ params = b

\* add with exist_ok=True replaced the first of several elements by one with
\* the same name and another value.
C14_Witness ==
    /\ DocCall("add")
    /\ calls[1].args.exist_ok
    /\ err = "none"
    /\ Len(calls[1].before) >= 2
    /\ calls[1].before[1].name = calls[1].args.param.name
    /\ calls[1].before[1] # calls[1].args.param
    /\ calls[1].args.param.kind = "Parameter"
    /\ params[1] = calls[1].args.param
    /\ Len(params) = Len(calls[1].before)

\* C15: index(key, start, end), with start and end absent or not negative,
\* returns the position in the whole document of the first element named key
\* among the positions start <= i < end (defaults 0 and the length), and raises
\* KeyError when no element in that range has the name.
C15_IndexInWholeDocument ==
    (/\ DocCall("index")
     /\ calls[1].args.start \in {<<>>} \cup {<<n>> : n \in 0..2}
     /\ calls[1].args.end \in {<<>>} \cup {<<n>> : n \in 0..2}) =>
        LET b == calls[1].before
            lo == IF calls[1].args.start = <<>> THEN 0 ELSE calls[1].args.start[1]
            hi == IF calls[1].args.end = <<>> THEN Len(b) ELSE calls[1].args.end[1]
            found == {i \in 0..(Len(b) - 1) :
                         lo <= i /\ i < hi /\ b[i + 1].name = calls[1].args.key}
        IN  IF found = {} THEN err = "KeyError"
            ELSE err = "none" /\ calls[1].ret = Least(found)

\* C16: config[key], key in config and del config[key] act on the first element
\* named key: get returns it, contains tells whether there is one, delete takes
\* out that element and nothing else; with no such element get and delete raise
\* KeyError; get and contains, and a failed delete, leave the document as it was.
C16_FirstByName ==
    /\ DocCall("getitem") =>
          LET hits == Hits(calls[1].before, calls[1].args.key)
          IN  /\ params = calls[1].before
              /\ IF hits = {} THEN err = "KeyError"
                 ELSE err = "none" /\ calls[1].ret = calls[1].before[Least(hits)]
    /\ DocCall("contains") =>
          /\ params = calls[1].before
          /\ err = "none"
          /\ calls[1].ret = (Hits(calls[1].before, calls[1].args.key) # {})
    /\ DocCall("delitem") =>
          LET hits == Hits(calls[1].before, calls[1].args.key)
          IN  IF hits = {} THEN err = "KeyError" /\ params = calls[1].before
              ELSE err = "none" /\ TakenOut(params, calls[1].before, Least(hits))

\* del by name took the first of two equal comments that had another element
\* between them.
C16_Witness ==
    /\ DocCall("delitem")
    /\ err = "none"
    /\ Len(calls[1].before) = 3
    /\ calls[1].before[1] = calls[1].before[3]
    /\ calls[1].before[1] # calls[1].before[2]
    /\ calls[1].before[1].name = calls[1].args.key
    /\ params = <<calls[1].before[2], calls[1].before[3]>>

-----------------------------------------------------------------------------
(* process_pia *)

\* The document process_pia was entered with in call i
PiaEntry(i) == IF calls[i].op = "process_pia" THEN calls[i].before ELSE calls[i].inserted

NotPia(e) == e.name \notin PiaNames

\* d holds, from 0-based position a on, a BlankLine, the Begin comment, the
\* parameters cipher, data-ciphers and ncp-disable, the End comment, a BlankLine.
PiaRunAt(d, a) ==
    /\ Len(d) >= a + 7
    /\ d[a + 1] = BlankLine
    /\ d[a + 2] = Comment(BEGIN_COMMENT)
    /\ d[a + 3].name = S_cipher /\ d[a + 3].kind = "Parameter"
    /\ d[a + 4].name = S_data_ciphers /\ d[a + 4].kind = "Parameter"
    /\ d[a + 5].name = S_ncp_disable /\ d[a + 5].kind = "Parameter"
    /\ d[a + 6] = Comment(END_COMMENT)
    /\ d[a + 7] = BlankLine

\* C11: the block of process_pia stands in one piece where the cipher element
\* was: the surviving elements that preceded the cipher element precede the
\* block, those that followed it follow the block, whether or not a data-ciphers
\* or ncp-disable parameter stood before the cipher line.
C11_BlockWhereCipherWas ==
    \A i \in PiaRan :
        LET b == PiaEntry(i)
            d == After(i)
            k == Pos(b, S_cipher)
            pre == SelectSeq(SubSeq(b, 1, k - 1), NotPia)
            post == SelectSeq(SubSeq(b, k + 1, Len(b)), NotPia)
        IN  /\ Len(d) = Len(pre) + 7 + Len(post)
            /\ SubSeq(d, 1, Len(pre)) = pre
            /\ PiaRunAt(d, Len(pre))
            /\ SubSeq(d, Len(pre) + 8, Len(d)) = post

\* C12: process_pia, called on its own or by process_profile with the PIA
\* extension, on a document without a cipher parameter raises KeyError; the
\* error reaches the caller, nothing is done after it and the document is as
\* it was.
C12_PiaNeedsCipher ==
    \A i \in 1..Len(calls) :
        (/\ \/ calls[i].op = "process_pia"
            \/ calls[i].op = "process_profile" /\ calls[i].provider_ext = "PIA"
         /\ ~Contains(calls[i].before, S_cipher))
            => /\ calls[i].err = "KeyError"
               /\ i = Len(calls)
               /\ pc = "failed"
               /\ err = "KeyError"
               /\ params = calls[i].before

\* process_pia was called on its own on a profile that holds data-ciphers and
\* no cipher, and failed.
C12_Witness ==
    /\ pc = "failed"
    /\ calls[Len(calls)].op = "process_pia"
    /\ calls[Len(calls)].err = "KeyError"
    /\ Contains(calls[Len(calls)].before, S_data_ciphers)
    /\ ~Contains(calls[Len(calls)].before, S_cipher)

-----------------------------------------------------------------------------
(* The WEAK warning and the comment markers *)

\* The class the rules give to the cipher parameter of d
ClassOfDoc(d) ==
    RuleClass(IF ValueOf(d, S_cipher) = None THEN <<>> ELSE ValueOf(d, S_cipher))

\* C17: process_profile on a profile whose cipher is classified WEAK returns
\* without error, having warned and having installed the (baseline) TLS
\* settings; and whenever the document it leaves is WEAK it has warned.
C17_WeakWarnsAndCompletes ==
    \A i \in 1..Len(calls) :
        (calls[i].op = "process_profile" /\ Contains(calls[i].before, S_cipher)) =>
            /\ ClassOfDoc(calls[i].before) = "WEAK"
                  => /\ calls[i].err = "none"
                     /\ calls[i].warned
                     /\ \A n \in TlsNames : OneParameter(After(i), n)
                     /\ BaselineTls(After(i))
            /\ (calls[i].err = "none" /\ ClassOfDoc(After(i)) = "WEAK")
                  => calls[i].warned

\* process_profile without extension warned on a profile with cipher BF-CBC,
\* returned and left the cipher line as it was.
C17_Witness ==
    \E i \in Completed("process_profile") :
        /\ calls[i].provider_ext = "NONE"
        /\ calls[i].warned
        /\ ClassOfDoc(After(i)) = "WEAK"
        /\ ValueOf(After(i), S_cipher) # None
        /\ ValueOf(After(i), S_cipher) = ValueOf(calls[i].before, S_cipher)
        /\ BaselineTls(After(i))

Markers(d, text) == Cardinality({k \in 1..Len(d) : d[k] = Comment(text)})

\* C18: with no provider extension, after n successive applications of
\* process_profile the document holds n more Begin comments and n more End
\* comments than before the first of them, and still one parameter of each TLS
\* name.
C18_MarkersAccumulate ==
    \A j, i \in Completed("process_profile") :
        (j <= i /\ calls[i].provider_ext = "NONE") =>
            /\ Markers(After(i), BEGIN_COMMENT)
                  = Markers(calls[j].before, BEGIN_COMMENT) + (i - j + 1)
            /\ Markers(After(i), END_COMMENT)
                  = Markers(calls[j].before, END_COMMENT) + (i - j + 1)
            /\ \A n \in TlsNames : OneParameter(After(i), n)

\* process_profile without extension was applied twice and the document holds
\* two Begin and two End comments.
C18_Witness ==
    \E i \in Reapplied :
        /\ calls[i].provider_ext = "NONE"
        /\ Markers(calls[i].before, BEGIN_COMMENT) = 0
        /\ Markers(After(i + 1), BEGIN_COMMENT) = 2
        /\ Markers(After(i + 1), END_COMMENT) = 2

-----------------------------------------------------------------------------
(* Directory mode *)

\* src was a directory when process_profiles was called
DirMode == Resolve(fs.src) \in fs.dirs

\* dest is src or lies below it
DestInsideSrc == IsPrefix(Resolve(fs.src), Resolve(fs.dest))

\* C19: in directory mode with dest being src or lying inside src,
\* process_profiles raises the ValueError for the destination before it makes a
\* directory or reads, writes or copies a file.
C19_NestedDestRejected ==
    (DirMode /\ DestInsideSrc /\ pc # "start") =>
        /\ pc = "failed"
        /\ err = "ValueError: dest path cannot be relative to src path"
        /\ calls = <<>>
        /\ fs.made = {}
        /\ fs.files = fs.orig

\* The files that were below src, as paths relative to src
SrcFiles ==
    {SubSeq(p, Len(Resolve(fs.src)) + 1, Len(p)) : p \in DOMAIN fs.orig}

EndsWith(name, tail) ==
    Len(name) >= Len(tail) /\ SubSeq(name, Len(name) - Len(tail) + 1, Len(name)) = tail

\* C20: when process_profiles returns in directory mode, every file that was
\* below src has a file at the same relative path below dest: the transformed
\* profile when its name ends in .ovpn, a copy otherwise. Stated for a dest
\* outside src, where the walk writes nothing below src.
C20_EveryFileDelivered ==
    (DirMode /\ ~DestInsideSrc /\ pc = "done") =>
        \A rel \in SrcFiles :
            LET from == Resolve(fs.src) \o rel
                to == Resolve(fs.dest) \o rel
            IN  /\ to \in DOMAIN fs.files
                /\ fs.files[to] = IF EndsWith(rel[Len(rel)], Nm.dot_ovpn)
                                  THEN OneProfile(fs.orig[from], args).out
                                  ELSE fs.orig[from]

\* The turn of the loop that was taken last failed
LastTurnFailed == calls # <<>> /\ calls[Len(calls)].err # "none"

\* C21: in directory mode the first file whose mkdir, read, transform, write
\* or copy fails ends process_profiles with that error: nothing is done after
\* the failure, and the files that had not had their turn are neither
\* transformed nor copied.
C21_AbortOnFirstFailure ==
    /\ [](DirMode =>
            /\ LastTurnFailed => (pc = "failed" /\ err = calls[Len(calls)].err)
            /\ pc \in {"walking", "done"} => err = "none"
            /\ (pc = "failed" /\ ~DestInsideSrc) =>
                   \A rel \in fs.start \ fs.seen :
                       Resolve(fs.dest) \o rel \notin DOMAIN fs.files)
    /\ [][pc = "failed" => UNCHANGED vars]_vars

\* The walk delivered one file, then failed on a profile that cannot be read,
\* with a third file still waiting.
C21_Witness ==
    /\ DirMode
    /\ ~DestInsideSrc
    /\ pc = "failed"
    /\ LastTurnFailed
    /\ calls[Len(calls)].op = "read"
    /\ \E rel \in fs.seen : Resolve(fs.dest) \o rel \in DOMAIN fs.files
    /\ fs.start \ fs.seen # {}

-----------------------------------------------------------------------------
(* Temporary files and directories *)

\* The temporary files and directories that were created and still exist
TempsLeft == fs.made \cap (DOMAIN fs.files \cup fs.dirs)

\* C22: once the context has been left, or the construction of ResolveSource
\* (with the handlers it builds) has failed, no temporary file or directory
\* that was created is left.
C22_TempsRemoved == pc \in {"exited", "failed"} => TempsLeft = {}

-----------------------------------------------------------------------------
(* The readers *)

\* The number of lines the elements of ps take up
RECURSIVE LinesOf(_)
LinesOf(ps) == IF ps = <<>> THEN 0 ELSE ElemLen(Head(ps)) + LinesOf(Tail(ps))

\* The read of the file has been attempted
ReadDone == calls # <<>> /\ calls[1].op = "read"

\* C23: when OVPNConfig.read succeeds its elements take up the lines of the
\* file exactly, element k being what the readers make of the text that
\* starts where element k - 1 ended; and when the text left after the
\* recognised elements starts with a line no reader recognises, read fails
\* with the unknown-line error for that very line.
C23_EveryLineAccounted ==
    ReadDone =>
        /\ calls[1].err = "none" =>
              /\ LinesOf(params) = Len(lines)
              /\ params = Recognise(lines)
              /\ \A k \in 1..Len(params) :
                    params[k] = FirstParser(SubSeq(lines, LinesOf(SubSeq(params, 1, k - 1)) + 1,
                                                   Len(lines))).ele
        /\ (UniqueNames(Recognise(lines)) /\ LinesOf(Recognise(lines)) < Len(lines)) =>
              /\ pc = "failed"
              /\ calls[1].err = "ValueError: Unknown config file line"
              /\ calls[1].line = lines[LinesOf(Recognise(lines)) + 1]

\* A file with an empty inline block followed by a line no reader recognises
\* was refused for that last line.
C23_Witness ==
    /\ ReadDone
    /\ pc = "failed"
    /\ Len(lines) = 3
    /\ LinesOf(Recognise(lines)) = 2
    /\ Recognise(lines)[1].kind = "Inline"
    /\ calls[1].line = lines[3]

\* The reader that was called on its own, and the first line as it trims it
Called(parser) == calls # <<>> /\ calls[1].op = "read_element" /\ calls[1].parser = parser
Trimmed == strip(lines[1])

\* The line is blank, or has comment syntax, or has tag syntax
IsBlank(t) == t = <<>>
HasCommentSyntax(t) == t # <<>> /\ t[1] \in {"#", ";"}
HasTagSyntax(t) == t # <<>> /\ t[1] = "<"

\* The line starts with a name: a lowercase letter or digit, then lowercase
\* letters, digits, "-" and "_", the last of them a lowercase letter or digit
StartsWithName(t) ==
    \E j \in 2..Len(t) :
        /\ t[1] \in AlNum
        /\ t[j] \in AlNum
        /\ \A k \in 2..(j - 1) : t[k] \in WordChar

\* C24 as stated: Parameter.read takes every line that is not blank and has
\* neither comment nor tag syntax, whatever it starts with, as one line.
C24_CatchAll ==
    (Called("Parameter") /\ ~IsBlank(Trimmed) /\ ~HasCommentSyntax(Trimmed)
     /\ ~HasTagSyntax(Trimmed)) =>
        /\ calls[1].ok
        /\ ElemLen(calls[1].ele) = 1

\* C24 amended: Parameter.read takes exactly the lines that, trimmed, start
\* with a name of two or more characters (lowercase letter or digit first and
\* last, lowercase letters, digits, "-" and "_" between); it makes a Parameter
\* of one line of them and refuses every other line with ValueError.
C24_NamedLinesOnly ==
    Called("Parameter") =>
        /\ calls[1].ok <=> StartsWithName(Trimmed)
        /\ calls[1].ok => (calls[1].ele.kind = "Parameter" /\ ElemLen(calls[1].ele) = 1)
        /\ ~calls[1].ok => calls[1].why = "Line is not a parameter"

\* Parameter.read refused a line that is not blank and is neither comment nor
\* tag: it starts with an upper-case letter.
C24_Witness ==
    /\ Called("Parameter")
    /\ ~calls[1].ok
    /\ ~IsBlank(Trimmed) /\ ~HasCommentSyntax(Trimmed) /\ ~HasTagSyntax(Trimmed)
    /\ Trimmed[1] = "A"

\* The positions of the spaces and tabs of t
Blanks(t) == {i \in 1..Len(t) : t[i] \in {" ", "\t"}}

\* C25: Parameter.read splits the line it takes at its first run of spaces and
\* tabs: the name is the text before the run, the value the trimmed text after
\* it, and without any space or tab the value is absent; a loaded profile with
\* the line "cipher<tab>AES-256-CBC" holds an element named cipher.
C25_SplitAtWhitespace ==
    /\ (Called("Parameter") /\ calls[1].ok) =>
          IF Blanks(Trimmed) = {}
          THEN calls[1].ele.name = Trimmed /\ calls[1].ele.value = None
          ELSE /\ calls[1].ele.name = SubSeq(Trimmed, 1, Least(Blanks(Trimmed)) - 1)
               /\ calls[1].ele.value = strip(SubSeq(Trimmed, Least(Blanks(Trimmed)),
                                                    Len(Trimmed)))
    /\ (pc = "loaded" /\ \E i \in 1..Len(lines) : lines[i] = P_cipher_tab) =>
          Contains(params, S_cipher)

\* C26: Comment.read takes the first line exactly when, trimmed, it starts
\* with "#" or ";", and makes a Comment of it; loading never fails for a line
\* that is a comment once trimmed.
C26_TrimmedComment ==
    /\ Called("Comment") =>
          /\ calls[1].ok <=> HasCommentSyntax(Trimmed)
          /\ calls[1].ok => (calls[1].ele.kind = "Comment" /\ calls[1].ele.name = Trimmed)
    /\ (ReadDone /\ calls[1].err = "ValueError: Unknown config file line") =>
          ~HasCommentSyntax(strip(calls[1].line))

\* The lines after the first that, trimmed, are the closer of <ca>
Closers == {i \in 2..Len(lines) : strip(lines[i]) = <<"<","/","c","a",">">>}

\* C27: Inline.read, on a text that opens with <ca> and has a line equal to
\* </ca> (whitespace around it and the newline aside), ends the block at the
\* first such line: the body is the trimmed lines between the two, a line that
\* only begins with </ca> is body, and the element takes up 2 + body lines.
C27_CloserIsExactLine ==
    (Called("Inline") /\ Trimmed = <<"<","c","a",">">> /\ Closers # {}) =>
        /\ calls[1].ok
        /\ calls[1].ele.name = Trimmed
        /\ calls[1].ele.body = [k \in 1..(Least(Closers) - 2) |-> strip(lines[k + 1])]
        /\ ElemLen(calls[1].ele) = Least(Closers)

\* The file opens the tag <ca> in its first line and no later line closes it,
\* however the closer is looked for
NeverClosed ==
    /\ lines # <<>>
    /\ strip(lines[1]) = <<"<","c","a",">">>
    /\ \A i \in 2..Len(lines) : ~startswith(strip(lines[i]), <<"<","/","c","a",">">>)

\* C28: OVPNConfig.read of a file whose inline tag is never closed fails, and
\* the error it raises is "Tag was never closed", not the unknown-line error.
C28_UnterminatedReported ==
    (ReadDone /\ NeverClosed) =>
        /\ pc = "failed"
        /\ err = "ValueError: Tag was never closed"

-----------------------------------------------------------------------------
(* When the WEAK warning is given *)

\* C29: process_profile warns exactly when the cipher of the document it was
\* given is classified WEAK, whatever the document's cipher is when it
\* returns; a call that raised has not warned.
C29_WarnsFromEntryClass ==
    \A i \in 1..Len(calls) :
        calls[i].op = "process_profile" =>
            IF calls[i].err = "none"
            THEN /\ calls[i].warned <=> (ClassOfDoc(calls[i].before) = "WEAK")
                 /\ calls[i].strength = ClassOfDoc(calls[i].before)
            ELSE ~calls[i].warned

\* process_profile with the PIA extension warned on a profile with cipher
\* BF-CBC and left a document whose cipher is AES-128-GCM, class ACCEPTABLE.
C29_Witness ==
    \E i \in Completed("process_profile") :
        /\ calls[i].provider_ext = "PIA"
        /\ calls[i].warned
        /\ ClassOfDoc(calls[i].before) = "WEAK"
        /\ ValueOf(After(i), S_cipher) = PIA_CIPHER_BASE
        /\ ClassOfDoc(After(i)) = "ACCEPTABLE"

====
